---- MODULE Spec2Model ----
(***************************************************************************)
(* A model of morticia's porting session: MorticiaBot.start_port driving   *)
(* Project.add_pull_request_interactive, the LocalRepo git operations with *)
(* the naive conflict-resolution loop, and the interactive round shown by  *)
(* MergeConflictsPaginator.  git itself is the environment: the outcome of *)
(* every git command is an input (exit status, and whether its stdout      *)
(* carries "CONFLICT" and "deleted in HEAD and modified in").              *)
(***************************************************************************)
EXTENDS FiniteSets, Integers, Sequences, TLC

\* ------------------------------------------------------------------ bounds
\* number of conflicted files git may report at one failure
MaxConflicts == 2
\* number of interactive rounds of one session
MaxRounds == 2
\* number of LocalRepo API calls made by the client of SpecRepo
MaxCalls == 2
\* number of parents the merge commit of a ported change may have
MaxParents == 2
\* number of write calls made on the StatusMessage
MaxWrites == 3
\* number of clock ticks that pass
MaxTicks == 3
\* number of times one Project is entered
MaxEntries == 2
\* highest pull request number of the indexed repository
MaxPulls == 3
\* number of indexing passes started
MaxPasses == 2
\* number of pull requests of the repository the queries are asked about
MaxChanges == 3
MaxOpens == 3
MaxName == 2
MaxLen == 5

\* --------------------------------------------------------------- git model
\* src/src/git.py:95-99  ResolutionType
ResolutionType == {"UNSELECTED", "MANUAL", "OURS", "THEIRS"}

\* src/src/git.py:204-218  the result of one subprocess: exit status and the
\* two substrings of stdout the code tests for
GitOk == [ok |-> TRUE, conflict |-> FALSE, marker |-> FALSE]

GitFailures == {[ok |-> FALSE, conflict |-> c, marker |-> m] : c, m \in BOOLEAN}

GitResults == {GitOk} \cup GitFailures

\* a failure whose output shows no conflict: neither "CONFLICT" nor the
\* marker is in stdout
GitFatal == [ok |-> FALSE, conflict |-> FALSE, marker |-> FALSE]

\* one entry of the trace of issued git commands
Cmd(c, a) == [cmd |-> c, arg |-> a]

\* src/src/git.py:110-117  MergeConflict.__init__
MergeConflict(path) == [path |-> path, resolution |-> "UNSELECTED"]

\* src/src/git.py:315-324  LocalRepo.conflicts: n unmerged paths, each a
\* fresh MergeConflict
Conflicts(n) == [i \in 1..n |-> MergeConflict(i)]

NoExc == [type |-> "none", conflict |-> FALSE, marker |-> FALSE,
          command |-> "", conflicts |-> << >>]

\* src/src/git.py:86-88  GitCommandException(e): keeps stdout of e
GitCommandException(r) ==
    [type |-> "GitCommandException", conflict |-> r.conflict,
     marker |-> r.marker, command |-> "", conflicts |-> << >>]

\* src/src/git.py:149-155  MergeConflictsException(e, command, conflicts)
MergeConflictsException(e, command, conflicts) ==
    [type |-> "MergeConflictsException", conflict |-> e.conflict,
     marker |-> e.marker, command |-> command, conflicts |-> conflicts]

\* an exception of another class (no git output)
OtherException(t) == [NoExc EXCEPT !.type = t]

\* src/src/git.py:74-88,149  the class hierarchy the except clauses test:
\* GitCommandException and MergeConflictsException both derive from
\* CommandException and are unrelated to each other
IsInstance(t, cls) == t = cls \/ (cls = "CommandException"
    /\ t \in {"GitCommandException", "MergeConflictsException"})

Returned(v) == [raised |-> FALSE, value |-> v, exc |-> NoExc]

Raised(e) == [raised |-> TRUE, value |-> "None", exc |-> e]

\* src/src/git.py:220-232  LocalRepo.git: a failed command raises
\* GitCommandException
git(r) == IF r.ok THEN Returned("None") ELSE Raised(GitCommandException(r))

\* src/src/git.py:255-261  LocalRepo.apply_patch
apply_patch(r, n) ==
    IF ~git(r).raised THEN Returned("None")
    ELSE IF ~git(r).exc.conflict THEN Raised(git(r).exc)
    ELSE Raised(MergeConflictsException(git(r).exc, "am", Conflicts(n)))

\* variant of cherry_pick: every failure of the command is taken for a
\* conflict
cherry_pick_any(r, n) ==
    IF ~git(r).raised THEN Returned("None")
    ELSE Raised(MergeConflictsException(git(r).exc, "cherry-pick", Conflicts(n)))

\* src/src/git.py:299-305  LocalRepo.cherry_pick
cherry_pick(r, n) ==
    IF ~git(r).raised THEN Returned("None")
    ELSE IF ~git(r).exc.conflict THEN Raised(git(r).exc)
    ELSE Raised(MergeConflictsException(git(r).exc, "cherry-pick", Conflicts(n)))

\* variant of continue_merge: the new failure names "am" whatever was continued
continue_merge_am(command, r, n) ==
    IF ~git(r).raised THEN Returned("None")
    ELSE IF ~git(r).exc.conflict THEN Raised(git(r).exc)
    ELSE Raised(MergeConflictsException(git(r).exc, "am", Conflicts(n)))

\* src/src/git.py:326-332  LocalRepo.continue_merge
continue_merge(command, r, n) ==
    IF ~git(r).raised THEN Returned("None")
    ELSE IF ~git(r).exc.conflict THEN Raised(git(r).exc)
    ELSE Raised(MergeConflictsException(git(r).exc, command, Conflicts(n)))

\* src/src/git.py:315-324  LocalRepo.conflicts, c being what the call
\* gives: c.n unmerged paths, or the failure of "git diff", of reading a
\* file or of the diff tool
conflicts(c) == IF c.raised THEN Raised(c.exc) ELSE Returned(Conflicts(c.n))

\* src/src/git.py:261, 305, 332  "conflicts=await self.conflicts()" is
\* evaluated before MergeConflictsException is constructed: when conflicts()
\* raises, that is what leaves the method
Enumerated(res, c) ==
    IF res.raised /\ res.exc.type = "MergeConflictsException"
          /\ conflicts(c).raised
    THEN conflicts(c)
    ELSE res

\* variant of _select_porting_method: the parent test passes one parent
_select_porting_method_ge(merged, parents) ==
    IF ~merged THEN "PATCH"
    ELSE IF parents >= 1 THEN "PATCH"
    ELSE "CHERRY_PICK"

\* src/src/morticia.py:128-148  Project._select_porting_method
_select_porting_method(merged, parents) ==
    IF ~merged THEN "PATCH"
    ELSE IF parents > 1 THEN "PATCH"
    ELSE "CHERRY_PICK"

\* src/src/ui/pages.py:20-30  MergeConflictsContext.num_remaining_conflicts
num_remaining_conflicts(cs) ==
    Cardinality({i \in 1..Len(cs) : cs[i].resolution = "UNSELECTED"})

\* variant of update_continue_button: off by one in the comparison
update_continue_button_off(cs) == num_remaining_conflicts(cs) > 1

\* src/src/ui/pages.py:40-41  MergeConflictsContext.update_continue_button:
\* the value written to button.disabled
update_continue_button(cs) == num_remaining_conflicts(cs) > 0

\* ------------------------------------------------------------ status text
\* src/src/status.py:10-11
MAX_MESSAGE_LENGTH == 2000

FORMATTING_CHARS_LENGTH == 12

\* src/src/status.py:36  StatusMessage._flush_time: 0.5 s, in ticks
_flush_time == 2

\* A text is a sequence of runs: n characters of kind c, of the text of the
\* id-th write call.  Kinds: "x" a character that is neither a newline nor
\* part of the token, "nl" a newline, "T1" and "T2" the two characters of
\* the GitHub token, "R" a character of the placeholder.
Run(c, n) == [c |-> c, n |-> n, id |-> 0]

Chars(n) == <<Run("x", n)>>

Newline == <<Run("nl", 1)>>

\* os.environ.get("GITHUB_TOKEN") (src/src/status.py:52)
Token == <<Run("T1", 1), Run("T2", 1)>>

\* the text of write call id
Tag(t, id) == [i \in 1..Len(t) |-> [t[i] EXCEPT !.id = id]]

\* the texts that have a character in t
Ids(t) == {t[i].id : i \in 1..Len(t)} \ {0}

\* len(t)
RECURSIVE len(_)
len(t) == IF t = << >> THEN 0 ELSE Head(t).n + len(Tail(t))

\* t[:n]
RECURSIVE slice_to(_, _)
slice_to(t, n) ==
    IF t = << >> \/ n <= 0 THEN << >>
    ELSE IF Head(t).n <= n
    THEN <<Head(t)>> \o slice_to(Tail(t), n - Head(t).n)
    ELSE <<[Head(t) EXCEPT !.n = n]>>

\* t[n:]
RECURSIVE slice_from(_, _)
slice_from(t, n) ==
    IF t = << >> THEN << >>
    ELSE IF n <= 0 THEN t
    ELSE IF Head(t).n <= n THEN slice_from(Tail(t), n - Head(t).n)
    ELSE <<[Head(t) EXCEPT !.n = @ - n]>> \o Tail(t)

\* token in t
ContainsToken(t) ==
    \E i \in 1..(Len(t) - 1) : t[i].c = "T1" /\ t[i + 1].c = "T2"

\* variant of replace: nothing is redacted
replace_nothing(t) == t

\* src/src/status.py:52  message.replace(token, "<REDACTED>"): every
\* occurrence of the token, left to right
RECURSIVE replace(_)
replace(t) ==
    IF Len(t) < 2 THEN t
    ELSE IF t[1].c = "T1" /\ t[2].c = "T2"
    THEN <<[c |-> "R", n |-> 10, id |-> t[1].id]>>
         \o replace(SubSeq(t, 3, Len(t)))
    ELSE <<t[1]>> \o replace(Tail(t))

\* src/src/status.py:94  buffered_text.rsplit("\n", 2)[0]: the text before
\* the last but one newline, or before the only newline, or all of it
rsplit(t) ==
    LET nls == {i \in 1..Len(t) : t[i].c = "nl"}
        last == CHOOSE i \in nls : \A j \in nls : j <= i
        rest == nls \ {last}
        prev == CHOOSE i \in rest : \A j \in rest : j <= i
    IN  IF nls = {} THEN t
        ELSE IF rest = {} THEN SubSeq(t, 1, last - 1)
        ELSE SubSeq(t, 1, prev - 1)

\* src/src/status.py:73-80  write_line: the markup of the format, then "\n"
Formatted(t, format) ==
    (CASE format = "COMMAND" -> Chars(19) \o t
       [] format = "COMMENT" -> Chars(16) \o t \o Chars(4)
       [] format = "ERROR" -> Chars(15) \o t
       [] OTHER -> t) \o Newline

\* src/src/status.py:98  the content flush emits for buffer t
Content(t) == Chars(8) \o t \o Chars(3)

\* src/src/status.py:28-36  StatusMessage.__init__; target holds what the
\* channel got: the number of messages sent and what the last call emitted
StatusMessage ==
    [buffered_text |-> << >>, next_message |-> TRUE, message |-> 0,
     _last_flush |-> 0, target |-> [sent |-> 0, out |-> << >>]]

\* a call on the StatusMessage begins: nothing emitted by it yet
Called(S) == [S EXCEPT !.target.out = << >>]

\* the texts shown by what the last call emitted
EmittedIds(S) ==
    UNION {Ids(S.target.out[i].content) : i \in 1..Len(S.target.out)}

\* src/src/status.py:97-108  StatusMessage.flush at time t
flush(S, t) ==
    IF S.next_message
    THEN [S EXCEPT !.message = S.target.sent + 1,
                   !.next_message = FALSE,
                   !._last_flush = t,
                   !.target = [sent |-> S.target.sent + 1,
                               out |-> Append(S.target.out,
                                   [kind |-> "send",
                                    message |-> S.target.sent + 1,
                                    content |-> Content(S.buffered_text)])]]
    ELSE [S EXCEPT !._last_flush = t,
                   !.target.out = Append(S.target.out,
                                   [kind |-> "edit", message |-> S.message,
                                    content |-> Content(S.buffered_text)])]

\* src/src/status.py:58-66  the while loop of write and the final append
RECURSIVE write_slices(_, _, _)
write_slices(S, m, t) ==
    IF len(m) + FORMATTING_CHARS_LENGTH > MAX_MESSAGE_LENGTH
    THEN write_slices(
            [flush([S EXCEPT !.buffered_text =
                        slice_to(m, MAX_MESSAGE_LENGTH - FORMATTING_CHARS_LENGTH)],
                   t)
                EXCEPT !.next_message = TRUE, !.buffered_text = << >>],
            slice_from(m, MAX_MESSAGE_LENGTH - FORMATTING_CHARS_LENGTH), t)
    ELSE [S EXCEPT !.buffered_text = S.buffered_text \o m]

\* variant of write: the buffer is never reset for a new segment
write_no_reset(S, message, t) == write_slices(S, replace(message), t)

\* src/src/status.py:51-66  StatusMessage.write
write(S, message, t) ==
    LET m == replace(message)
        remaining_length == MAX_MESSAGE_LENGTH - FORMATTING_CHARS_LENGTH
                                - len(S.buffered_text)
    IN  write_slices(IF remaining_length - len(m) <= 0
                     THEN [S EXCEPT !.next_message = TRUE,
                                    !.buffered_text = << >>]
                     ELSE S,
                     m, t)

\* variant of _periodic_flush: no rate limit
_periodic_flush_always(S, t) == flush(S, t)

\* src/src/status.py:68-70  StatusMessage._periodic_flush
_periodic_flush(S, t) ==
    IF S._last_flush + _flush_time < t THEN flush(S, t) ELSE S

\* src/src/status.py:72-82  StatusMessage.write_line
write_line(S, message, format, t) ==
    _periodic_flush(write(S, Formatted(message, format), t), t)

\* src/src/status.py:93-95  StatusMessage.rewrite_line
rewrite_line(S, message, t) ==
    write_line([S EXCEPT !.buffered_text = rsplit(S.buffered_text) \o Newline],
               message, "STANDARD", t)

\* src/src/status.py:38-49  StatusMessage.receive_message
receive_message(S, title, message, t) ==
    write_line(S, message,
               CASE title = "command" -> "COMMAND"
                 [] title = "comment" -> "COMMENT"
                 [] title = "error" -> "ERROR"
                 [] OTHER -> "STANDARD",
               t)

\* ---------------------------------------------------------------- publisher
\* src/src/pubsub.py:31-32  the subscription made for
\* status_message.receive_message
Subscription == [event_type |-> "MessageEvent", method |-> "receive_message"]

\* src/src/pubsub.py:24-35  Publisher.subscribe(status_message): subs is
\* _subscriptions, l the list kept for the subscriber
subscribe(subs, l) ==
    [_subscriptions |-> subs \cup {Subscription},
     _subscribers |-> Append(l, Subscription)]

\* variant of unsubscribe: the subscriptions are left in place
unsubscribe_keeps(subs, l) ==
    [_subscriptions |-> subs, raised |-> "None"]

\* src/src/pubsub.py:37-40  Publisher.unsubscribe(status_message):
\* set.remove raises KeyError for an element that is not there
RECURSIVE unsubscribe(_, _)
unsubscribe(subs, l) ==
    IF l = << >> THEN [_subscriptions |-> subs, raised |-> "None"]
    ELSE IF Head(l) \notin subs
    THEN [_subscriptions |-> subs, raised |-> "KeyError"]
    ELSE unsubscribe(subs \ {Head(l)}, Tail(l))

\* src/src/pubsub.py:42-46  Publisher.publish(MessageEvent(title, message))
\* as seen by the StatusMessage S
publish(subs, S, title, message, t) ==
    IF \E sub \in subs : sub.event_type = "MessageEvent"
    THEN receive_message(Called(S), title, message, t)
    ELSE S

\* ------------------------------------------------------------ history index
\* the indexed repository (str(repo_id))
RepoName == "org/repo"

\* a file of pull_request.get_files(); a previous_filename of "None" is None
File(filename, status, previous_filename) ==
    [filename |-> filename, status |-> status,
     previous_filename |-> previous_filename]

\* a number of the repository that is no pull request: repo.get_pull raises
\* UnknownObjectException for it (src/src/morticia.py:289-292)
NotAPull ==
    [pr |-> FALSE, merged |-> FALSE, created_at |-> 0, closed_at |-> 0,
     merged_at |-> 0, files |-> {}]

\* src/src/model.py:83-84, 99-100, 159-160, 198-199  unique_hash of a row of
\* class cls; the formatted string is kept as the tuple of its parts
unique_hash(cls, row) ==
    CASE cls = "KnownRepo" -> <<row.repo_id>>
      [] cls = "KnownFile" -> <<row.repo_id, row.file_path>>
      [] cls = "KnownPullRequest" -> <<row.repo_id, row.pull_request_id>>
      [] cls = "KnownFileChange" ->
            <<row.repo_id, row.pull_request_id, row.file_path>>

\* __tablename__ of the classes (src/src/model.py:78, 93, 109, 169)
Table(D, cls) ==
    CASE cls = "KnownRepo" -> D.known_repos
      [] cls = "KnownFile" -> D.known_files
      [] cls = "KnownPullRequest" -> D.known_pull_requests
      [] cls = "KnownFileChange" -> D.known_file_changes

\* src/src/model.py:88-89, 104-105, 164-165, 203-204  unique_filter and
\* q.first(): a stored row of class cls with the natural key of row exists
Stored(D, cls, row) ==
    \E j \in 1..Len(Table(D, cls)) :
        unique_hash(cls, Table(D, cls)[j]) = unique_hash(cls, row)

\* the Session: its _unique_cache (session.info), the objects added and not
\* yet flushed, in the order of session.add, and the changes made to stored
\* objects and not yet flushed
EmptySession == [_unique_cache |-> {}, new |-> << >>, dirty |-> << >>]

EmptyDb ==
    [known_repos |-> << >>, known_pull_requests |-> << >>,
     known_files |-> << >>, known_file_changes |-> << >>]

\* src/src/model.py:11-28  _unique, as called by as_unique(session, **kw):
\* row holds the keyword arguments
_unique(S, D, cls, row) ==
    LET key == <<cls, unique_hash(cls, row)>> IN
    IF key \in S._unique_cache THEN S
    ELSE IF Stored(D, cls, row)
    THEN [S EXCEPT !._unique_cache = @ \cup {key}]
    ELSE [S EXCEPT !._unique_cache = @ \cup {key},
                   !.new = Append(@, [cls |-> cls, row |-> row])]

\* the stored row of class cls with the natural key of row
StoredRow(D, cls, row) ==
    Table(D, cls)[CHOOSE j \in 1..Len(Table(D, cls)) :
                     unique_hash(cls, Table(D, cls)[j])
                         = unique_hash(cls, row)]

\* src/src/model.py:136-152, 188-195  the columns of an object that held
\* old, after update assigned it the values of row: closed_at and merged_at
\* of a KnownPullRequest are assigned only when the value read is not None
Assigned(cls, old, row) ==
    IF cls = "KnownPullRequest"
    THEN [row EXCEPT !.closed_at = IF row.closed_at # 0 THEN row.closed_at
                                   ELSE old.closed_at,
                     !.merged_at = IF row.merged_at # 0 THEN row.merged_at
                                   ELSE old.merged_at]
    ELSE row

\* src/src/model.py:135-152, 187-195  update on the object as_unique
\* returned: a pending object takes the values, a stored one is written at
\* the next flush, one that is neither (expunged by a rollback) is written
\* nowhere
update(S, D, cls, row) ==
    IF \E j \in 1..Len(S.new) :
          /\ S.new[j].cls = cls
          /\ unique_hash(cls, S.new[j].row) = unique_hash(cls, row)
    THEN [S EXCEPT !.new =
            [j \in 1..Len(S.new) |->
                IF /\ S.new[j].cls = cls
                   /\ unique_hash(cls, S.new[j].row) = unique_hash(cls, row)
                THEN [cls |-> cls, row |-> Assigned(cls, S.new[j].row, row)]
                ELSE S.new[j]]]
    ELSE IF Stored(D, cls, row)
    THEN [S EXCEPT !.dirty =
            Append(@, [cls |-> cls,
                       row |-> Assigned(cls, StoredRow(D, cls, row), row)])]
    ELSE S

\* UPDATE of one stored object
Update(D, o) ==
    LET upd(t) == [j \in 1..Len(t) |->
                     IF unique_hash(o.cls, t[j]) = unique_hash(o.cls, o.row)
                     THEN o.row ELSE t[j]]
    IN  CASE o.cls = "KnownPullRequest" ->
               [D EXCEPT !.known_pull_requests = upd(@)]
          [] o.cls = "KnownFileChange" ->
               [D EXCEPT !.known_file_changes = upd(@)]
          [] OTHER -> D

\* INSERT of one object
Insert(D, o) ==
    CASE o.cls = "KnownRepo" ->
           [D EXCEPT !.known_repos = Append(@, o.row)]
      [] o.cls = "KnownFile" ->
           [D EXCEPT !.known_files = Append(@, o.row)]
      [] o.cls = "KnownPullRequest" ->
           [D EXCEPT !.known_pull_requests = Append(@, o.row)]
      [] o.cls = "KnownFileChange" ->
           [D EXCEPT !.known_file_changes = Append(@, o.row)]

\* the flush of session.commit(): the pending objects are inserted, in the
\* order they were added
RECURSIVE Inserted(_, _)
Inserted(D, new) ==
    IF new = << >> THEN D ELSE Inserted(Insert(D, Head(new)), Tail(new))

RECURSIVE Flushed(_, _)
Flushed(D, dirty) ==
    IF dirty = << >> THEN D ELSE Flushed(Update(D, Head(dirty)), Tail(dirty))

\* session.commit(): the rows afterwards
commit(D, S) == Flushed(Inserted(D, S.new), S.dirty)

\* session.commit() and session.rollback(): the Session afterwards; the
\* cache in session.info stays
Cleared(S) == [S EXCEPT !.new = << >>, !.dirty = << >>]

\* src/src/model.py:171-173  the rows a KnownFileChange row refers to
ParentsStored(D, row) ==
    /\ Stored(D, "KnownRepo", row)
    /\ Stored(D, "KnownPullRequest", row)
    /\ Stored(D, "KnownFile", row)

\* the file-change rows among the pending objects that are inserted before
\* a row they refer to
RECURSIVE Orphans(_, _)
Orphans(D, new) ==
    IF new = << >> THEN {}
    ELSE (IF Head(new).cls = "KnownFileChange"
             /\ ~ParentsStored(D, Head(new).row)
          THEN {unique_hash("KnownFileChange", Head(new).row)} ELSE {})
         \cup Orphans(Insert(D, Head(new)), Tail(new))

\* ------------------------------------------------ ancestors and descendants
\* src/src/morticia.py:323  the path whose change marks an upstream merge
ChangelogPath == "Resources/Changelog/Changelog.yml"

\* src/src/morticia.py:362-370
HIGH_FREQUENCY_FILES ==
    {"Resources/Prototypes/Entities/Structures/Machines/lathe.yml",
     "Resources/Prototypes/tags.yml",
     "Resources/Prototypes/Loadouts/loadout_groups.yml",
     "Resources/Prototypes/Entities/Mobs/NPCs/animals.yml",
     "Resources/Prototypes/Entities/Objects/Fun/toys.yml",
     "Resources/Prototypes/Loadouts/Miscellaneous/trinkets.yml",
     "Resources/Prototypes/_Impstation/Loadouts/Miscellaneous/trinkets.yml"}

\* src/src/morticia.py:315-329  get_upstream_merge_prs(repo_id): the
\* pull_request of every stored file change of the changelog path
get_upstream_merge_prs(D) ==
    {D.known_pull_requests[j] : j \in
        {j \in 1..Len(D.known_pull_requests) :
            \E c \in 1..Len(D.known_file_changes) :
                /\ D.known_file_changes[c].file_path = ChangelogPath
                /\ D.known_file_changes[c].repo_id = RepoName
                /\ D.known_pull_requests[j].repo_id = RepoName
                /\ D.known_pull_requests[j].pull_request_id
                      = D.known_file_changes[c].pull_request_id}}

\* src/src/morticia.py:391, 447  median_pr.merged and median_pr.merged_at
\* or median_pr.created_at
median_pr_time(median_pr) ==
    IF median_pr.merged /\ median_pr.merged_at # 0
    THEN median_pr.merged_at ELSE median_pr.created_at

\* src/src/morticia.py:382-388  the paths get_ancestors searches
ancestor_file_paths(median_pr) ==
    {file.filename : file \in
        {file \in median_pr.files :
            /\ file.filename \notin HIGH_FREQUENCY_FILES
            /\ file.status \in {"modified", "changed", "renamed",
                                 "deleted"}}}

\* src/src/morticia.py:441-445  the paths get_descendants searches
descendant_file_paths(median_pr) ==
    {file.filename : file \in
        {file \in median_pr.files : file.status = "added"}}

\* src/src/morticia.py:397-407, 453-463  the stored pull requests of the
\* stored file changes whose path or previous path is one of paths
PullRequestsOf(D, paths) ==
    {D.known_pull_requests[j] : j \in
        {j \in 1..Len(D.known_pull_requests) :
            \E c \in 1..Len(D.known_file_changes) :
                /\ D.known_file_changes[c].repo_id = RepoName
                /\ \/ D.known_file_changes[c].file_path \in paths
                   \/ D.known_file_changes[c].previous_file_path \in paths
                /\ D.known_pull_requests[j].repo_id = RepoName
                /\ D.known_pull_requests[j].pull_request_id
                      = D.known_file_changes[c].pull_request_id}}

\* variant of ancestors: a change merged at the reference time is kept
ancestors_at(D, median_pr) ==
    {p \in PullRequestsOf(D, ancestor_file_paths(median_pr)) :
        /\ p.merged
        /\ ~(p.merged_at > median_pr_time(median_pr))
        /\ p \notin get_upstream_merge_prs(D)}

\* src/src/morticia.py:396-418  the set ancestors of get_ancestors
ancestors(D, median_pr) ==
    {p \in PullRequestsOf(D, ancestor_file_paths(median_pr)) :
        /\ p.merged
        /\ ~(p.merged_at >= median_pr_time(median_pr))
        /\ p \notin get_upstream_merge_prs(D)}

\* src/src/morticia.py:452-474  the set descendants of get_descendants
descendants(D, median_pr) ==
    {p \in PullRequestsOf(D, descendant_file_paths(median_pr)) :
        /\ p.merged
        /\ ~(p.merged_at <= median_pr_time(median_pr))
        /\ p \notin get_upstream_merge_prs(D)}

\* src/src/morticia.py:420-423, 476-479  list(set) sorted by merged_at: the
\* lists sort can give, the set's order being any and the sort stable
sort_by_oldest(prs) ==
    {l \in [1..Cardinality(prs) -> prs] :
        /\ \A p \in prs : \E j \in 1..Cardinality(prs) : l[j] = p
        /\ \A j1, j2 \in 1..Cardinality(prs) :
              j1 < j2 => l[j1].merged_at <= l[j2].merged_at}

\* src/src/morticia.py:425-429, 481-485  f"#{pull_request_id} - {title}"
Links(l) ==
    [j \in 1..Len(l) |-> <<"#", l[j].pull_request_id, " - ", l[j].title>>]

\* src/src/model.py:171, 185 and src/src/morticia.py:322, 343  the join of
\* known_file_changes with known_pull_requests along the relationship
\* KnownFileChange.pull_request, whose only foreign key into
\* known_pull_requests is pull_request_id: the pairs <<c, j>> of a
\* file-change row and a pull-request row with one number
Joined(D) ==
    LET nc == Len(D.known_file_changes)
        np == Len(D.known_pull_requests)
        pairs == [i \in 1..(nc * np) |->
                     <<((i - 1) \div np) + 1, ((i - 1) % np) + 1>>]
    IN  SelectSeq(pairs,
                  LAMBDA p : D.known_file_changes[p[1]].pull_request_id
                                = D.known_pull_requests[p[2]].pull_request_id)

\* src/src/model.py:185  change.pull_request, taken to be the stored pull
\* request with the number and the repository of the change
pull_request(D, change) ==
    D.known_pull_requests[
        CHOOSE j \in 1..Len(D.known_pull_requests) :
            /\ D.known_pull_requests[j].pull_request_id
                  = change.pull_request_id
            /\ D.known_pull_requests[j].repo_id = change.repo_id]

\* src/src/morticia.py:315-329  get_upstream_merge_prs(repo_id), as the list
\* it returns; a repo_id of "None" is None
upstream_merges(D, repo_id) ==
    LET rows == SelectSeq(Joined(D),
                   LAMBDA p :
                      /\ D.known_file_changes[p[1]].file_path = ChangelogPath
                      /\ repo_id # "None" =>
                            /\ D.known_file_changes[p[1]].repo_id = repo_id
                            /\ D.known_pull_requests[p[2]].repo_id = repo_id)
    IN  [i \in 1..Len(rows) |->
            pull_request(D, D.known_file_changes[rows[i][1]])]

\* src/src/morticia.py:354-357  the inner loop: the first pull request of
\* the list with number n is removed, and the loop is left
RECURSIVE RemoveFirst(_, _)
RemoveFirst(l, n) ==
    IF l = << >> THEN << >>
    ELSE IF Head(l).pull_request_id = n THEN Tail(l)
    ELSE <<Head(l)>> \o RemoveFirst(Tail(l), n)

\* src/src/morticia.py:353-357  the outer loop over the upstream merges
RECURSIVE RemoveEach(_, _)
RemoveEach(l, merges) ==
    IF merges = << >> THEN l
    ELSE RemoveEach(RemoveFirst(l, Head(merges).pull_request_id),
                    Tail(merges))

\* src/src/morticia.py:331-359  search_for_file_changes
search_for_file_changes(D, path, repo_id, merged_only, ignore_upstream_merges) ==
    LET rows == SelectSeq(Joined(D),
                   LAMBDA p :
                      /\ D.known_file_changes[p[1]].file_path = path
                      /\ repo_id # "None" =>
                            /\ D.known_file_changes[p[1]].repo_id = repo_id
                            /\ D.known_pull_requests[p[2]].repo_id = repo_id
                      /\ merged_only => D.known_pull_requests[p[2]].merged)
        pull_requests == [i \in 1..Len(rows) |->
                            pull_request(D, D.known_file_changes[rows[i][1]])]
    IN  IF ignore_upstream_merges
        THEN RemoveEach(pull_requests, upstream_merges(D, repo_id))
        ELSE pull_requests

\* ------------------------------------------------------------------- state
VARIABLES
    pc,             \* position of the session (or API client) coroutine
    caller,         \* "project" (a port session), "api" (a LocalRepo client),
                    \* "client" (of a Project) or "stream" (of a StatusMessage)
    method,         \* PortingMethod selected by add_pull_request
    pr_merged,      \* target_pull_request.is_merged()
    pr_parents,     \* len(target_commit.parents) of its merge commit
    branch,         \* Project.branch
    exc,            \* the exception in flight / held by the engine
    continue_command,           \* naive_conflict_resolution's parameter
    naive_resolution_applied,   \* naive_conflict_resolution's local flag
    naive_called,   \* naive_conflict_resolution was entered for this port
    naive_iterations,           \* turns of its while loop in the last call
    initial_failure,            \* the e it was last called with
    api_result,     \* how the last LocalRepo API call ended
    calls,          \* number of API calls made
    current_page,   \* Paginator.current_page (1-based)
    cont_disabled,  \* continue_button.disabled of each page's view
    ctx_future,     \* MergeConflictsContext.future
    pag_future,     \* AsyncPaginator.future, awaited by respond
    completed_by,   \* the handler that completed pag_future
    rounds,         \* rounds presented so far
    k,              \* index of _interactive_conflict_resolution's for loop
    success,        \* result of _interactive_conflict_resolution
    returned,       \* result of add_pull_request_interactive
    gitlog,         \* git commands issued since the session began or, in a
                    \* round, the command whose failure it presents and
                    \* those issued since
    pushed,         \* the branch was pushed to origin
    branch_state,   \* the persisted ProjectLatestAddition rows
    pr_opened,      \* create_pull_request opened the outward pull request
    pr_draft,       \* its draft argument
    github,         \* the repository on GitHub: what each number is
    index_pc,       \* position of index_repo
    index_i,        \* i of index_repo's loop
    files_left,     \* files of pull_request.get_files() not yet iterated
    session,        \* the bot's Session
    db,             \* the rows of the four tables, in insertion order
    orphans,        \* file-change rows inserted before a row they refer to
    passes,         \* index_repo calls made
    query,          \* the query last asked: "ancestors" or "descendants"
    seed,           \* pr_id.number of the query
    links,          \* the list it returned
    outcome,        \* how start_port ended
    _subscriptions, \* Publisher._subscriptions
    _subscribers,   \* Publisher._subscribers[status_message]
    in_block,       \* control is inside a "with project:" block
    entries,        \* number of times the Project was entered
    exit_raised,    \* what the last __exit__ raised
    work_repo_publisher,        \* LocalRepo.publisher of the work repo
    status_message, \* the StatusMessage: buffered_text, next_message,
                    \* message, _last_flush, and its target (the messages
                    \* sent so far and what the last call emitted)
    now,            \* time.time(), in ticks of a quarter of a second
    writes,         \* write calls made so far; the n-th writes text n
    emitted,        \* the texts that some emitted content has shown
    rewritten,      \* the texts that a rewrite_line took out of the buffer
    directories,    \* the working copies on disk, as paths from the
                    \* directory the process runs in
    upstream,       \* the upstream of the default branch, per working copy
    cloned,         \* clones made so far
    opened,         \* what each call of LocalRepo.open gave
    repo_ids,       \* the RepoId objects made so far
    message,        \* the body of the pull request that is ported
    qualified,      \* what qualify_implicit_issues made of it, and of that
    called,         \* the last call of a LocalRepo operation: its name, the
                    \* subcommand, what its git command gave and what
                    \* conflicts() would give
    views,          \* the MergeConflictView of each page of a paginator:
                    \* its conflict (resolution, proposed_content) and
                    \* the ResolveConflictModal its Edit button sent
    workers,        \* the port sessions that run side by side: the
                    \* directory of each one's LocalRepo, where its
                    \* coroutine is, the commands it started and the patch
                    \* its "git am" read
    tmp_patch       \* the content of the file tmp.patch in the directory
                    \* the process runs in

vars == <<pc, caller, method, pr_merged, pr_parents,
          branch, exc, continue_command,
          naive_resolution_applied, naive_called, naive_iterations,
          initial_failure, api_result, calls,
          current_page, cont_disabled, ctx_future, pag_future, completed_by,
          rounds, k, success, returned, gitlog, pushed,
          branch_state, pr_opened, pr_draft, outcome, _subscriptions,
          _subscribers, in_block, entries, exit_raised, work_repo_publisher,
          status_message, now, writes, emitted, rewritten,
          github, index_pc, index_i, files_left, session, db, orphans,
          passes, query, seed, links,
          directories, upstream, cloned, opened, repo_ids, message,
          qualified, called, views, workers, tmp_patch>>

\* the port session, the naive loop and the interactive round
sessionData == <<caller, method, pr_merged, pr_parents, branch, exc,
                 continue_command, naive_resolution_applied, naive_called,
                 naive_iterations, initial_failure, api_result, calls,
                 current_page, cont_disabled, ctx_future, pag_future,
                 completed_by, rounds, k, success, returned, gitlog, pushed,
                 branch_state, pr_opened, pr_draft, outcome>>

sessionVars == <<pc, sessionData>>

publisherVars == <<_subscriptions, _subscribers, in_block, entries,
                   exit_raised, work_repo_publisher>>

streamVars == <<status_message, now, writes, emitted, rewritten>>

statusVars == <<publisherVars, streamVars>>

\* the history index and the pass that fills it
queryVars == <<query, seed, links>>

indexVars == <<github, index_pc, index_i, files_left, session, db, orphans,
               passes, queryVars>>

\* the pages of a paginator, and the sessions that run side by side with
\* the file they share
sideVars == <<views, workers, tmp_patch>>

\* the disk under LocalRepo.open, the identifiers made and the text
\* given to qualify_implicit_issues
helperVars == <<directories, upstream, cloned, opened, repo_ids, message,
                qualified, called, sideVars>>

uiVars == <<current_page, cont_disabled, ctx_future, pag_future, completed_by,
            rounds>>

portVars == <<method, pr_merged, pr_parents,
              branch, k, success, returned, pushed, branch_state,
              pr_opened, pr_draft>>

naiveVars == <<continue_command, naive_resolution_applied, naive_called,
               naive_iterations, initial_failure>>

\* the pull request being ported and the branch derived from it
\* (src/src/git.py:59-60 PullRequestId.slug)
PrId == "org/repo#1"

PrSlug == "org-repo-1"

\* a change ported earlier, and the branch derived from it
PrevId == "org/repo#0"

PrevSlug == "org-repo-0"

\* src/src/morticia.py:121-123  a new ProjectLatestAddition row for branch b
ProjectLatestAddition(b) == [branch |-> b, pull_request_id |-> "None"]

\* variant of _get_project_state: a new row whatever the table holds
_get_project_state_new(table, b) == ProjectLatestAddition(b)

\* src/src/morticia.py:111-126  Project._get_project_state: the row of
\* branch b selected from the table, or a new one added to the session
_get_project_state(table, b) ==
    IF \E row \in table : row.branch = b
    THEN CHOOSE row \in table : row.branch = b
    ELSE ProjectLatestAddition(b)

\* src/src/morticia.py:157-159  the row of branch b is set to change p and
\* the session is committed
commit_project_state(table, b, p) ==
    (table \ {_get_project_state(table, b)})
        \cup {[_get_project_state(table, b) EXCEPT !.pull_request_id = p]}

InitCommon ==
    /\ method = "none" /\ pr_merged = FALSE /\ pr_parents = 0
    /\ exc = NoExc
    /\ continue_command = "" /\ naive_resolution_applied = FALSE
    /\ naive_called = FALSE /\ naive_iterations = 0
    /\ initial_failure = NoExc /\ api_result = "none" /\ calls = 0
    /\ current_page = 1 /\ cont_disabled = << >>
    /\ ctx_future = "none" /\ pag_future = "none" /\ completed_by = "none"
    /\ rounds = 0 /\ k = 0
    /\ success = "none" /\ returned = "none" /\ gitlog = << >>
    /\ pushed = FALSE
    /\ pr_opened = FALSE /\ pr_draft = FALSE /\ outcome = "none"
    /\ _subscriptions = {} /\ _subscribers = << >>
    /\ in_block = FALSE /\ entries = 0 /\ exit_raised = "None"
    /\ work_repo_publisher = "None"
    /\ status_message = StatusMessage /\ now = _flush_time + 1
    /\ writes = 0 /\ emitted = {} /\ rewritten = {}

\* src/src/morticia.py:261-266  Morticia.__init__ with a new Session and no
\* indexing command given
NoQuery == query = "none" /\ seed = 0 /\ links = << >>

\* no paginator was made
NoSide == views = << >> /\ workers = << >> /\ tmp_patch = "None"

\* src/src/git.py:14-15  the repositories directory exists and is empty
NoHelpers ==
    /\ directories = {} /\ upstream = << >> /\ cloned = 0 /\ opened = << >>
    /\ repo_ids = << >> /\ message = << >> /\ qualified = << >>
    /\ called = "None" /\ NoSide

NoIndexing ==
    /\ github = [n \in 1..MaxPulls |-> NotAPull]
    /\ index_pc = "none" /\ index_i = 0 /\ files_left = {}
    /\ session = EmptySession /\ db = EmptyDb /\ orphans = {}
    /\ passes = 0 /\ NoQuery

\* src/src/morticia.py:33-43  Project.__init__, before start_port's with-block
Init ==
    /\ pc = "enter" /\ caller = "project" /\ InitCommon
    /\ NoIndexing /\ NoHelpers
    /\ branch = "None" /\ branch_state = {}

\* ------------------------------------------------- where control goes next
StayUI == UNCHANGED uiVars

\* variant of SessionFails: the failed step is tried again
SessionFails_retries(e, log) ==
    /\ pc' = pc /\ exc' = e /\ outcome' = outcome
    /\ gitlog' = log
    /\ UNCHANGED api_result /\ StayUI

\* src/src/bot.py:96-104  an exception leaves start_port's with-block
SessionFails(e, log) ==
    /\ pc' = "done" /\ exc' = e /\ outcome' = "failed"
    /\ gitlog' = log
    /\ UNCHANGED api_result /\ StayUI

\* src/src/morticia.py:201-202 and src/src/ui/pages.py:209-213
\* _interactive_conflict_resolution builds a MergeConflictsPaginator for
\* exception.conflicts and awaits respond.  The paginator makes one future
\* for its MergeConflictsContext and, passing none to AsyncPaginator.__init__
\* (src/src/awaitable/paginator.py:10-12), gets a second one for itself.
NewRound(e, log) ==
    /\ pc' = "awaiting" /\ exc' = e
    /\ gitlog' = <<log[Len(log)]>>
    /\ current_page' = 1
    /\ cont_disabled' = [i \in 1..Len(e.conflicts) |-> TRUE]
    /\ ctx_future' = "pending" /\ pag_future' = "pending"
    /\ completed_by' = "none"
    /\ rounds' = rounds + 1
    /\ UNCHANGED <<outcome, api_result>>

\* src/src/morticia.py:228-231  add_pull_request raised e inside
\* add_pull_request_interactive's try
AddPullRequestRaises(e, log) ==
    IF IsInstance(e.type, "MergeConflictsException")
    THEN NewRound(e, log)
    ELSE SessionFails(e, log)

\* a LocalRepo API call made by the client of SpecRepo ends
ApiEnds(res, e, log) ==
    /\ pc' = "api_idle" /\ api_result' = res /\ exc' = e
    /\ gitlog' = log
    /\ UNCHANGED outcome /\ StayUI

\* src/src/git.py:186  naive_conflict_resolution raises e to its caller;
\* src/src/git.py:275,289 and src/src/morticia.py:193 pass it on
NaiveRaises(e, log) ==
    IF caller = "project" THEN AddPullRequestRaises(e, log)
    ELSE ApiEnds(e.type, e, log)

\* src/src/git.py:188,276,289  naive_conflict_resolution returns v;
\* src/src/morticia.py:193-197 add_pull_request drops the value and goes on
\* to _finish_adding_pull_request
NaiveReturns(v, log) ==
    IF caller = "project"
    THEN /\ pc' = "finish" /\ gitlog' = log
         /\ UNCHANGED <<exc, outcome, api_result>> /\ StayUI
    ELSE ApiEnds(v, NoExc, log)

\* src/src/git.py:173-175,185-186  naive_conflict_resolution is entered with
\* e: the loop is entered when the marker is in e.stdout, otherwise e is
\* raised again
NaiveEnter(e, log) ==
    IF e.marker
    THEN /\ pc' = "naive_add" /\ exc' = e /\ gitlog' = log
         /\ UNCHANGED <<outcome, api_result>> /\ StayUI
    ELSE NaiveRaises(e, log)

\* ------------------------------------------------------- the port session
\* src/src/morticia.py:83-109  Project.prepare_repo (reset_hard, track_remote
\* and default_branch() are not in src/src/git.py; one trace entry each)
PrepareCommands(has_token) ==
    <<Cmd("reset --hard HEAD", 0), Cmd("sync origin", 0),
      Cmd("remote get-url origin", 0)>>
    \o (IF has_token THEN << >> ELSE <<Cmd("remote set-url origin", 0)>>)
    \o <<Cmd("track home", 0), Cmd("sync home", 0)>>

\* src/src/bot.py:96-97  start_port enters the with-block and prepares
PrepareRepo(ok, has_token) ==
    /\ pc = "prepare"
    /\ IF ok
       THEN /\ pc' = "add"
            /\ gitlog' = gitlog \o PrepareCommands(has_token)
            /\ UNCHANGED <<exc, outcome, api_result>> /\ StayUI
       ELSE SessionFails(GitCommandException(
                [ok |-> FALSE, conflict |-> FALSE, marker |-> FALSE]), gitlog)
    /\ UNCHANGED <<caller, statusVars, helperVars, indexVars, calls, portVars,
                   naiveVars>>

\* src/src/morticia.py:174-191  add_pull_request up to the method selection:
\* fetch the target remote, checkout get_branch(slug), select the method
AddPullRequest(ok, merged, parents) ==
    /\ pc = "add"
    /\ IF ok
       THEN /\ pc' = "apply"
            /\ gitlog' = gitlog \o <<Cmd("track target", 0),
                                     Cmd("checkout -b", 0)>>
            /\ branch' = (IF branch = "None" THEN PrSlug ELSE branch)
            /\ pr_merged' = merged /\ pr_parents' = parents
            /\ method' = _select_porting_method(merged, parents)
            /\ UNCHANGED <<exc, outcome, api_result>> /\ StayUI
       ELSE /\ SessionFails(GitCommandException(
                    [ok |-> FALSE, conflict |-> FALSE, marker |-> FALSE]),
                    gitlog)
            /\ UNCHANGED <<branch, method, pr_merged, pr_parents>>
    /\ UNCHANGED <<caller, statusVars, helperVars, indexVars, calls,
                   naiveVars, k, success, returned, pushed, branch_state,
                   pr_opened, pr_draft>>

\* src/src/morticia.py:192-193 with src/src/git.py:263-289
\* apply_patch_from_url_conflict_resolving: git am --3way; the except clause
\* of apply_patch_conflict_resolving names GitCommandException
ApplyPatch(r, n) ==
    /\ pc = "apply" /\ method = "PATCH"
    /\ LET res == apply_patch(r, n)
           log == Append(gitlog, Cmd("am", 0)) IN
       IF ~res.raised
       THEN /\ pc' = "finish" /\ gitlog' = log
            /\ UNCHANGED <<exc, outcome, api_result, naiveVars>> /\ StayUI
       ELSE IF IsInstance(res.exc.type, "GitCommandException")
       THEN /\ NaiveEnter(res.exc, log)
            /\ continue_command' = "am --continue"
            /\ naive_resolution_applied' = FALSE
            /\ naive_called' = TRUE
            /\ naive_iterations' = 0 /\ initial_failure' = res.exc
       ELSE /\ AddPullRequestRaises(res.exc, log)
            /\ UNCHANGED naiveVars
    /\ UNCHANGED <<caller, statusVars, helperVars, indexVars, calls,
                   portVars>>

\* src/src/morticia.py:194-195 with src/src/git.py:299-305: the cherry-pick
\* branch calls cherry_pick itself
CherryPick(r, n) ==
    /\ pc = "apply" /\ method = "CHERRY_PICK"
    /\ LET res == cherry_pick(r, n)
           log == Append(gitlog, Cmd("cherry-pick", 0)) IN
       IF ~res.raised
       THEN /\ pc' = "finish" /\ gitlog' = log
            /\ UNCHANGED <<exc, outcome, api_result>> /\ StayUI
       ELSE AddPullRequestRaises(res.exc, log)
    /\ UNCHANGED <<caller, statusVars, helperVars, indexVars, calls, portVars,
                   naiveVars>>

\* src/src/git.py:176-178  loop body: set the flag, git add --all
NaiveAdd(r) ==
    /\ pc = "naive_add"
    /\ naive_resolution_applied' = TRUE
    /\ naive_iterations' = naive_iterations + 1
    /\ LET log == Append(gitlog, Cmd("add --all", 0)) IN
       IF ~git(r).raised
       THEN /\ pc' = "naive_continue" /\ gitlog' = log
            /\ UNCHANGED <<exc, outcome, api_result>> /\ StayUI
       ELSE NaiveRaises(git(r).exc, log)
    /\ UNCHANGED <<caller, statusVars, helperVars, indexVars, calls, portVars,
                   continue_command, naive_called, initial_failure>>

\* src/src/git.py:179-188  git <continue_command>: success breaks the loop
\* and the flag is returned (e still holds the marker); a failure is the
\* GitCommandException of LocalRepo.git, which the except clause for
\* MergeConflictsException catches only if it is one
NaiveContinue(r) ==
    /\ pc = "naive_continue"
    /\ LET log == Append(gitlog, Cmd(continue_command, 0)) IN
       IF ~git(r).raised
       THEN IF exc.marker THEN NaiveReturns("True", log)
            ELSE NaiveRaises(exc, log)
       ELSE IF IsInstance(git(r).exc.type, "MergeConflictsException")
       THEN NaiveEnter(git(r).exc, log)
       ELSE NaiveRaises(git(r).exc, log)
    /\ UNCHANGED <<caller, statusVars, helperVars, indexVars, calls, portVars,
                   naiveVars>>

\* ------------------------------------------------- the interactive round
\* the operator can act while the engine awaits respond; disable() at
\* src/src/morticia.py:205,208 greys every button out afterwards
RoundOpen == pc = "awaiting" /\ pag_future = "pending"

\* src/src/awaitable/paginator.py:102-103  AsyncPaginator.on_error: a
\* callback that raised completes the awaited future with the exception
on_error(t) ==
    /\ pag_future' = t /\ completed_by' = "on_error"

\* src/src/ui/pages.py:130-142  MergeConflictView.update_buttons of the view
\* of page p, the conflicts being cs: sets its continue button and shows
\* the page again
update_buttons(p, cs) ==
    cont_disabled' = [cont_disabled EXCEPT ![p] = update_continue_button(cs)]

\* the conflicts after the shown conflict took resolution d
\* (src/src/git.py:122-129 take_ours / take_theirs / take_manual)
Take(d) == [exc.conflicts EXCEPT ![current_page].resolution = d]

\* what the decision handlers leave alone
DecideFrame ==
    UNCHANGED <<pc, caller, statusVars, helperVars, indexVars, calls, api_result, portVars,
                naiveVars, gitlog,
                outcome, current_page, ctx_future, pag_future,
                completed_by, rounds>>

\* src/src/ui/pages.py:151-156  MergeConflictView.ours
Ours ==
    /\ RoundOpen
    /\ exc' = [exc EXCEPT !.conflicts = Take("OURS")]
    /\ update_buttons(current_page, Take("OURS"))
    /\ DecideFrame

\* src/src/ui/pages.py:158-163  MergeConflictView.theirs
Theirs ==
    /\ RoundOpen
    /\ exc' = [exc EXCEPT !.conflicts = Take("THEIRS")]
    /\ update_buttons(current_page, Take("THEIRS"))
    /\ DecideFrame

\* src/src/ui/pages.py:144-149  MergeConflictView.edit: take_manual, then the
\* modal is sent, then update_buttons
Edit ==
    /\ RoundOpen
    /\ exc' = [exc EXCEPT !.conflicts = Take("MANUAL")]
    /\ update_buttons(current_page, Take("MANUAL"))
    /\ DecideFrame

\* src/src/ui/pages.py:165-170  MergeConflictView.fix_later calls
\* conflict.as_is(), which MergeConflict (src/src/git.py:102-146) does not
\* define: AttributeError, handed to on_error; update_buttons is not reached
FixLater ==
    /\ RoundOpen
    /\ on_error("AttributeError")
    /\ UNCHANGED <<pc, caller, statusVars, helperVars, indexVars, calls,
                   api_result, portVars, naiveVars, gitlog, outcome, exc,
                   current_page, cont_disabled, ctx_future, rounds>>

\* src/src/ui/pages.py:201-204,215-216  another page is displayed
\* (trigger_on_display): its callback runs update_buttons of its view
GotoPage(p) ==
    /\ RoundOpen
    /\ p \in 1..Len(exc.conflicts) /\ p # current_page
    /\ current_page' = p
    /\ update_buttons(p, exc.conflicts)
    /\ UNCHANGED <<pc, caller, statusVars, helperVars, indexVars, calls,
                   api_result, portVars, naiveVars, gitlog, outcome, exc,
                   ctx_future, pag_future, completed_by, rounds>>

\* asyncio.Future.set_result on ctx.future: InvalidStateError when done
SetCtxResult(v) ==
    IF ctx_future = "pending"
    THEN ctx_future' = v /\ UNCHANGED <<pag_future, completed_by>>
    ELSE on_error("InvalidStateError") /\ UNCHANGED ctx_future

\* src/src/ui/pages.py:108-110 and 43-46  the Continue button (pressable
\* when not disabled): ctx.continue_merge sets ctx.future
PressContinue ==
    /\ RoundOpen
    /\ ~cont_disabled[current_page]
    /\ SetCtxResult("True")
    /\ UNCHANGED <<pc, caller, statusVars, helperVars, indexVars, calls,
                   api_result, portVars, naiveVars, gitlog, outcome, exc,
                   current_page, cont_disabled, rounds>>

\* src/src/ui/pages.py:172-175 and 48-51  the Cancel button:
\* ctx.cancel_merge sets ctx.future
PressCancel ==
    /\ RoundOpen
    /\ SetCtxResult("False")
    /\ UNCHANGED <<pc, caller, statusVars, helperVars, indexVars, calls,
                   api_result, portVars, naiveVars, gitlog, outcome, exc,
                   current_page, cont_disabled, rounds>>

\* variant of on_timeout: the timeout lets the round go on
on_timeout_resumes ==
    /\ RoundOpen
    /\ pag_future' = "True" /\ completed_by' = "on_timeout"
    /\ UNCHANGED <<pc, caller, statusVars, helperVars, indexVars, calls,
                   api_result, portVars, naiveVars, gitlog, outcome, exc,
                   current_page, cont_disabled, ctx_future, rounds>>

\* src/src/awaitable/paginator.py:105-106  AsyncPaginator.on_timeout, after
\* the timeout of src/src/ui/pages.py:213 passed without an interaction
on_timeout ==
    /\ RoundOpen
    /\ pag_future' = "False" /\ completed_by' = "on_timeout"
    /\ UNCHANGED <<pc, caller, statusVars, helperVars, indexVars, calls,
                   api_result, portVars, naiveVars, gitlog, outcome, exc,
                   current_page, cont_disabled, ctx_future, rounds>>

\* src/src/morticia.py:231-236  add_pull_request_interactive after
\* _interactive_conflict_resolution returned s: "if success: return False",
\* otherwise _finish_adding_pull_request and return True
ReturnsEarly(s) == s = "True"

\* src/src/morticia.py:202-211 and 231-234  respond returns (or raises) what
\* completed the awaited future.  False: "Cancelled." and return False, and
\* add_pull_request_interactive, success being false, goes on to
\* _finish_adding_pull_request.  True: the comment "Resolving conflicts..."
\* is written to the status message, then the for loop over the conflicts.
Resume ==
    /\ pc = "awaiting" /\ pag_future \notin {"pending", "none"}
    /\ IF pag_future = "True"
       THEN /\ pc' = "resolving" /\ k' = 1
            /\ writes' = writes + 1
            /\ status_message' =
                  write_line(Called(status_message),
                             Tag(Chars(22), writes + 1), "COMMENT", now)
            /\ emitted' = emitted \cup EmittedIds(status_message')
            /\ UNCHANGED <<exc, outcome, success>>
       ELSE IF pag_future = "False"
       THEN /\ success' = "False"
            /\ ~ReturnsEarly("False")
            /\ pc' = "finish"
            /\ UNCHANGED <<exc, outcome, k, status_message, writes, emitted>>
       ELSE /\ pc' = "done" /\ exc' = OtherException(pag_future)
            /\ outcome' = "failed"
            /\ UNCHANGED <<k, success, status_message, writes, emitted>>
    /\ UNCHANGED <<caller, publisherVars, now, rewritten, indexVars,
                   helperVars, calls, api_result, naiveVars, gitlog, uiVars,
                   method, pr_merged, pr_parents, branch, returned, pushed,
                   branch_state, pr_opened, pr_draft>>

\* variant of resolve_cmds: the file of an OURS or THEIRS conflict is
\* checked out and not staged
resolve_cmds_unstaged(c, r1, r2) ==
    IF c.resolution = "MANUAL" THEN <<Cmd("write", c.path), Cmd("add", c.path)>>
    ELSE IF c.resolution = "OURS" THEN <<Cmd("checkout --ours", c.path)>>
    ELSE IF c.resolution = "THEIRS" THEN <<Cmd("checkout --theirs", c.path)>>
    ELSE << >>

\* src/src/git.py:131-146  MergeConflict.resolve of conflict c: the git
\* commands it issues when checkout ends as r1 and add as r2
resolve_cmds(c, r1, r2) ==
    IF c.resolution = "MANUAL" THEN <<Cmd("write", c.path), Cmd("add", c.path)>>
    ELSE IF c.resolution = "OURS"
    THEN <<Cmd("checkout --ours", c.path)>>
         \o (IF r1 THEN <<Cmd("add", c.path)>> ELSE << >>)
    ELSE IF c.resolution = "THEIRS"
    THEN <<Cmd("checkout --theirs", c.path)>>
         \o (IF r1 THEN <<Cmd("add", c.path)>> ELSE << >>)
    ELSE << >>

\* src/src/git.py:131-146  what MergeConflict.resolve raises, if anything
resolve_raises(c, r1, r2) ==
    IF c.resolution = "UNSELECTED" THEN OtherException("Exception")
    ELSE IF c.resolution \in {"OURS", "THEIRS"} /\ ~r1
    THEN GitCommandException([ok |-> FALSE, conflict |-> FALSE, marker |-> FALSE])
    ELSE IF c.resolution \in {"MANUAL", "OURS", "THEIRS"} /\ ~r2
    THEN GitCommandException([ok |-> FALSE, conflict |-> FALSE, marker |-> FALSE])
    ELSE NoExc

\* src/src/morticia.py:208-212  one turn of "for conflict in
\* exception.conflicts: await conflict.resolve()"
ResolveConflict(r1, r2) ==
    /\ pc = "resolving" /\ k <= Len(exc.conflicts)
    /\ gitlog' = gitlog \o resolve_cmds(exc.conflicts[k], r1, r2)
    /\ IF resolve_raises(exc.conflicts[k], r1, r2) = NoExc
       THEN /\ k' = k + 1
            /\ pc' = (IF k = Len(exc.conflicts) THEN "continuing" ELSE pc)
            /\ UNCHANGED <<exc, outcome>>
       ELSE /\ pc' = "done" /\ outcome' = "failed"
            /\ exc' = resolve_raises(exc.conflicts[k], r1, r2)
            /\ UNCHANGED k
    /\ UNCHANGED <<caller, statusVars, helperVars, indexVars, calls,
                   api_result, naiveVars, uiVars, method, pr_merged,
                   pr_parents, branch, success, returned, pushed,
                   branch_state, pr_opened, pr_draft>>

\* src/src/morticia.py:214-218 and 231-233  continue_merge(exception.command):
\* success returns True, and add_pull_request_interactive then returns False
\* to start_port, which returns (src/src/bot.py:99-101); a new
\* MergeConflictsException replaces exception and the loop presents it
ContinueMerge(r, n) ==
    /\ pc = "continuing"
    /\ LET res == continue_merge(exc.command, r, n)
           log == Append(gitlog, Cmd(exc.command \o " --continue", 0)) IN
       IF ~res.raised
       THEN /\ success' = "True"
            /\ ReturnsEarly("True")
            /\ returned' = "False"
            /\ pc' = "done" /\ outcome' = "cancelled" /\ gitlog' = log
            /\ UNCHANGED <<exc, api_result>> /\ StayUI
       ELSE IF IsInstance(res.exc.type, "MergeConflictsException")
       THEN /\ rounds < MaxRounds
            /\ NewRound(res.exc, log)
            /\ UNCHANGED <<success, returned>>
       ELSE /\ SessionFails(res.exc, log)
            /\ UNCHANGED <<success, returned>>
    /\ UNCHANGED <<caller, statusVars, helperVars, indexVars, calls,
                   naiveVars, method, pr_merged, pr_parents, branch, k,
                   pushed, branch_state, pr_opened, pr_draft>>

\* src/src/morticia.py:155-163 and 236  _finish_adding_pull_request: push
\* origin <branch>, then the ProjectLatestAddition row of the branch is set
\* to the change and committed, "Completed in ..." is published and the
\* status message flushed; add_pull_request_interactive returns True
FinishAdding(r) ==
    /\ pc = "finish"
    /\ LET log == Append(gitlog, Cmd("push origin", 0)) IN
       IF ~git(r).raised
       THEN /\ pushed' = TRUE
            /\ branch_state' = commit_project_state(branch_state, branch, PrId)
            /\ writes' = writes + 1
            /\ status_message' =
                  flush(publish(_subscriptions, Called(status_message),
                                "comment", Tag(Chars(22), writes + 1), now),
                        now)
            /\ emitted' = emitted \cup EmittedIds(status_message')
            /\ returned' = "True"
            /\ pc' = "create_pr" /\ gitlog' = log
            /\ UNCHANGED <<exc, outcome, api_result>> /\ StayUI
       ELSE /\ SessionFails(git(r).exc, log)
            /\ UNCHANGED <<pushed, branch_state, returned, status_message,
                           writes, emitted>>
    /\ UNCHANGED <<caller, publisherVars, now, rewritten, indexVars,
                   helperVars, calls, naiveVars, method, pr_merged,
                   pr_parents, branch, k, success, pr_opened, pr_draft>>

\* src/src/bot.py:99-104 and src/src/morticia.py:238-257  success being true,
\* start_port calls create_pull_request(title, pr_id): draft keeps its
\* default
CreatePullRequest(ok) ==
    /\ pc = "create_pr"
    /\ IF ok
       THEN /\ pr_opened' = TRUE /\ pr_draft' = FALSE
            /\ pc' = "done" /\ outcome' = "completed"
            /\ UNCHANGED gitlog
            /\ UNCHANGED <<exc, api_result>> /\ StayUI
       ELSE /\ SessionFails(OtherException("GithubException"), gitlog)
            /\ UNCHANGED <<pr_opened, pr_draft>>
    /\ UNCHANGED <<caller, statusVars, helperVars, indexVars, calls,
                   naiveVars, method, pr_merged, pr_parents, branch, k,
                   success, returned, pushed, branch_state>>

\* the operator's decision, held by ctx.future, completes the future that
\* respond awaits (the result AsyncPaginator.respond is declared to return);
\* not a step of Spec, where nothing copies one future to the other
Deliver ==
    /\ RoundOpen /\ ctx_future \in {"True", "False"}
    /\ pag_future' = ctx_future /\ completed_by' = "operator"
    /\ UNCHANGED <<pc, caller, statusVars, helperVars, indexVars, calls,
                   api_result, portVars, naiveVars, gitlog, outcome, exc,
                   current_page, cont_disabled, ctx_future, rounds>>

\* ------------------------------------------- a client of the LocalRepo API
\* src/src/git.py:307-313  LocalRepo.cherry_pick_conflict_resolving
cherry_pick_conflict_resolving(r, n) ==
    /\ pc = "api_idle" /\ calls < MaxCalls
    /\ calls' = calls + 1
    /\ naive_resolution_applied' = FALSE
    /\ naive_iterations' = 0
    /\ LET res == cherry_pick(r, n)
           log == Append(gitlog, Cmd("cherry-pick", 0)) IN
       IF ~res.raised
       THEN /\ ApiEnds("False", NoExc, log)
            /\ UNCHANGED <<continue_command, naive_called, initial_failure>>
       ELSE IF IsInstance(res.exc.type, "MergeConflictsException")
       THEN /\ NaiveEnter(res.exc, log)
            /\ continue_command' = "cherry-pick --continue"
            /\ naive_called' = TRUE
            /\ initial_failure' = res.exc
       ELSE /\ ApiEnds(res.exc.type, res.exc, log)
            /\ UNCHANGED <<continue_command, naive_called, initial_failure>>
    /\ UNCHANGED <<caller, statusVars, helperVars, indexVars, portVars>>

\* src/src/git.py:263-276  LocalRepo.apply_patch_conflict_resolving
apply_patch_conflict_resolving(r, n) ==
    /\ pc = "api_idle" /\ calls < MaxCalls
    /\ calls' = calls + 1
    /\ naive_resolution_applied' = FALSE
    /\ naive_iterations' = 0
    /\ LET res == apply_patch(r, n)
           log == Append(gitlog, Cmd("am", 0)) IN
       IF ~res.raised
       THEN /\ ApiEnds("False", NoExc, log)
            /\ UNCHANGED <<continue_command, naive_called, initial_failure>>
       ELSE IF IsInstance(res.exc.type, "GitCommandException")
       THEN /\ NaiveEnter(res.exc, log)
            /\ continue_command' = "am --continue"
            /\ naive_called' = TRUE
            /\ initial_failure' = res.exc
       ELSE /\ ApiEnds(res.exc.type, res.exc, log)
            /\ UNCHANGED <<continue_command, naive_called, initial_failure>>
    /\ UNCHANGED <<caller, statusVars, helperVars, indexVars, portVars>>

\* the commands a call issues: the command of the method, and "git diff
\* --name-status --diff-filter=U" when conflicts() is called
Issued(cmd, res) ==
    <<cmd>> \o (IF res.raised /\ res.exc.type = "MergeConflictsException"
                THEN <<Cmd("diff --name-status --diff-filter=U", 0)>>
                ELSE << >>)

\* src/src/git.py:255-261  a caller of apply_patch
CallApplyPatch(r, c) ==
    /\ pc = "git" /\ calls < MaxCalls
    /\ calls' = calls + 1
    /\ called' = [function |-> "apply_patch", command |-> "am", r |-> r,
                  c |-> c]
    /\ exc' = Enumerated(apply_patch(r, c.n), c).exc
    /\ gitlog' = gitlog \o Issued(Cmd("am", 0), apply_patch(r, c.n))
    /\ UNCHANGED <<pc, caller, statusVars, indexVars, sideVars, directories, upstream,
                   cloned, opened, repo_ids, message, qualified, method,
                   pr_merged, pr_parents, branch, continue_command,
                   naive_resolution_applied, naive_called, naive_iterations,
                   initial_failure, api_result, uiVars, k, success, returned,
                   pushed, branch_state, pr_opened, pr_draft, outcome>>

\* src/src/git.py:299-305  a caller of cherry_pick
CallCherryPick(r, c) ==
    /\ pc = "git" /\ calls < MaxCalls
    /\ calls' = calls + 1
    /\ called' = [function |-> "cherry_pick", command |-> "cherry-pick",
                  r |-> r, c |-> c]
    /\ exc' = Enumerated(cherry_pick(r, c.n), c).exc
    /\ gitlog' = gitlog \o Issued(Cmd("cherry-pick", 0), cherry_pick(r, c.n))
    /\ UNCHANGED <<pc, caller, statusVars, indexVars, sideVars, directories, upstream,
                   cloned, opened, repo_ids, message, qualified, method,
                   pr_merged, pr_parents, branch, continue_command,
                   naive_resolution_applied, naive_called, naive_iterations,
                   initial_failure, api_result, uiVars, k, success, returned,
                   pushed, branch_state, pr_opened, pr_draft, outcome>>

\* src/src/git.py:326-332  a caller of continue_merge(command)
CallContinueMerge(command, r, c) ==
    /\ pc = "git" /\ calls < MaxCalls
    /\ calls' = calls + 1
    /\ called' = [function |-> "continue_merge", command |-> command,
                  r |-> r, c |-> c]
    /\ exc' = Enumerated(continue_merge(command, r, c.n), c).exc
    /\ gitlog' = gitlog \o Issued(Cmd(command, "--continue"),
                                  continue_merge(command, r, c.n))
    /\ UNCHANGED <<pc, caller, statusVars, indexVars, sideVars, directories, upstream,
                   cloned, opened, repo_ids, message, qualified, method,
                   pr_merged, pr_parents, branch, continue_command,
                   naive_resolution_applied, naive_called, naive_iterations,
                   initial_failure, api_result, uiVars, k, success, returned,
                   pushed, branch_state, pr_opened, pr_draft, outcome>>

\* the phrases src/src/git.py:234-253 looks for in the stderr of a failed
\* abort, and one of a failure of another kind; stderr is modelled as the
\* set of these phrases that occur in it
NoCherryPick == "no cherry-pick or revert in progress"

NoMerge == "There is no merge to abort"

NoPatch == "Resolve operation not in progress, we are not resuming."

Phrases == {NoCherryPick, NoMerge, NoPatch, "not a git repository"}

\* src/src/git.py:74-88  the GitCommandException of a failed command whose
\* stderr was stderr
GitFailure(r, stderr) == [stderr |-> stderr] @@ GitCommandException(r)

\* src/src/git.py:234-239  LocalRepo.abort_cherry_pick
abort_cherry_pick(r, stderr) ==
    IF ~git(r).raised THEN Returned("None")
    ELSE IF NoCherryPick \notin stderr THEN Raised(GitFailure(r, stderr))
    ELSE Returned("None")

\* variant of abort_merge: any of the three phrases is swallowed
abort_merge_any(r, stderr) ==
    IF ~git(r).raised THEN Returned("None")
    ELSE IF stderr \cap {NoCherryPick, NoMerge, NoPatch} = {}
    THEN Raised(GitFailure(r, stderr))
    ELSE Returned("None")

\* src/src/git.py:241-246  LocalRepo.abort_merge
abort_merge(r, stderr) ==
    IF ~git(r).raised THEN Returned("None")
    ELSE IF NoMerge \notin stderr THEN Raised(GitFailure(r, stderr))
    ELSE Returned("None")

\* src/src/git.py:248-253  LocalRepo.abort_patch
abort_patch(r, stderr) ==
    IF ~git(r).raised THEN Returned("None")
    ELSE IF NoPatch \notin stderr THEN Raised(GitFailure(r, stderr))
    ELSE Returned("None")

\* src/src/git.py:234-239  a caller of abort_cherry_pick
CallAbortCherryPick(r, stderr) ==
    /\ pc = "abort" /\ calls < MaxCalls
    /\ calls' = calls + 1
    /\ called' = [function |-> "abort_cherry_pick", command |-> "cherry-pick --abort",
                  r |-> r, stderr |-> stderr]
    /\ exc' = abort_cherry_pick(r, stderr).exc
    /\ gitlog' = Append(gitlog, Cmd("cherry-pick", "--abort"))
    /\ UNCHANGED <<pc, caller, statusVars, indexVars, sideVars, directories,
                   upstream, cloned, opened, repo_ids, message, qualified,
                   method, pr_merged, pr_parents, branch, continue_command,
                   naive_resolution_applied, naive_called, naive_iterations,
                   initial_failure, api_result, uiVars, k, success, returned,
                   pushed, branch_state, pr_opened, pr_draft, outcome>>

\* src/src/git.py:241-246  a caller of abort_merge
CallAbortMerge(r, stderr) ==
    /\ pc = "abort" /\ calls < MaxCalls
    /\ calls' = calls + 1
    /\ called' = [function |-> "abort_merge", command |-> "merge --abort",
                  r |-> r, stderr |-> stderr]
    /\ exc' = abort_merge(r, stderr).exc
    /\ gitlog' = Append(gitlog, Cmd("merge", "--abort"))
    /\ UNCHANGED <<pc, caller, statusVars, indexVars, sideVars, directories,
                   upstream, cloned, opened, repo_ids, message, qualified,
                   method, pr_merged, pr_parents, branch, continue_command,
                   naive_resolution_applied, naive_called, naive_iterations,
                   initial_failure, api_result, uiVars, k, success, returned,
                   pushed, branch_state, pr_opened, pr_draft, outcome>>

\* src/src/git.py:248-253  a caller of abort_patch
CallAbortPatch(r, stderr) ==
    /\ pc = "abort" /\ calls < MaxCalls
    /\ calls' = calls + 1
    /\ called' = [function |-> "abort_patch", command |-> "am --abort",
                  r |-> r, stderr |-> stderr]
    /\ exc' = abort_patch(r, stderr).exc
    /\ gitlog' = Append(gitlog, Cmd("am", "--abort"))
    /\ UNCHANGED <<pc, caller, statusVars, indexVars, sideVars, directories,
                   upstream, cloned, opened, repo_ids, message, qualified,
                   method, pr_merged, pr_parents, branch, continue_command,
                   naive_resolution_applied, naive_called, naive_iterations,
                   initial_failure, api_result, uiVars, k, success, returned,
                   pushed, branch_state, pr_opened, pr_draft, outcome>>

\* ------------------------------------------- the Project as context manager
\* src/src/morticia.py:45-47  Project.__enter__, by start_port's "with
\* project:" (src/src/bot.py:96) or by a client holding the Project
__enter__ ==
    /\ pc \in {"enter", "client"} /\ ~in_block /\ entries < MaxEntries
    /\ _subscriptions' = subscribe(_subscriptions, _subscribers)._subscriptions
    /\ _subscribers' = subscribe(_subscriptions, _subscribers)._subscribers
    /\ work_repo_publisher' = "publisher"
    /\ in_block' = TRUE /\ entries' = entries + 1
    /\ pc' = (IF pc = "enter" THEN "prepare" ELSE pc)
    /\ UNCHANGED <<sessionData, indexVars, helperVars, exit_raised,
                   streamVars>>

\* src/src/morticia.py:49-51  Project.__exit__, run when the block is left
\* by its end, by a return or by an exception; it ignores its arguments.
\* An exception of unsubscribe leaves work_repo.publisher as it is.
__exit__ ==
    /\ pc \in {"done", "client"} /\ in_block
    /\ _subscriptions' = unsubscribe(_subscriptions, _subscribers)._subscriptions
    /\ exit_raised' = unsubscribe(_subscriptions, _subscribers).raised
    /\ work_repo_publisher' =
          (IF unsubscribe(_subscriptions, _subscribers).raised = "None"
           THEN "None" ELSE work_repo_publisher)
    /\ in_block' = FALSE
    /\ UNCHANGED <<sessionVars, indexVars, helperVars, _subscribers, entries,
                   streamVars>>

\* src/src/pubsub.py:42-46  a client publishes MessageEvent(title, m)
Publish(title, m) ==
    /\ pc = "client" /\ writes < MaxWrites
    /\ writes' = writes + 1
    /\ status_message' =
          publish(_subscriptions, status_message, title,
                  Tag(m, writes + 1), now)
    /\ emitted' = emitted \cup EmittedIds(status_message')
    /\ UNCHANGED <<sessionVars, indexVars, helperVars, publisherVars, now,
                   rewritten>>

\* src/src/git.py:164-171  LocalRepo.status: None from __init__ on, and
\* assigned nowhere else (Project.__enter__ sets work_repo.publisher, which
\* no method of LocalRepo reads)
LocalRepoStatus == "None"

\* src/src/git.py:220-232  LocalRepo.git on the work repository, the result
\* of the command being r: when status is set, the command line goes to
\* it before the command runs and stdout after it succeeded
RunGit(r) ==
    /\ pc = "client" /\ calls < MaxCalls
    /\ calls' = calls + 1
    /\ gitlog' = Append(gitlog, Cmd("git", 0))
    /\ LET echoed == write_line(Called(status_message),
                                Tag(Chars(1), writes + 1), "COMMAND", now)
           shown == IF r.ok
                    THEN write_line(echoed, Tag(Chars(1), writes + 2),
                                    "STANDARD", now)
                    ELSE echoed
       IN  IF LocalRepoStatus = "None"
           THEN UNCHANGED <<status_message, writes, emitted>>
           ELSE /\ status_message' = shown
                /\ writes' = writes + 2
                /\ emitted' = emitted \cup EmittedIds(shown)
    /\ UNCHANGED <<pc, caller, indexVars, helperVars, publisherVars, now,
                   rewritten, method, pr_merged, pr_parents, branch, exc,
                   continue_command, naive_resolution_applied, naive_called,
                   naive_iterations, initial_failure, api_result, uiVars, k,
                   success, returned, pushed, branch_state, pr_opened,
                   pr_draft, outcome>>

\* --------------------------------------------- a client of the StatusMessage
\* src/src/status.py:51-66  a call of write(m)
Write(m) ==
    /\ pc = "stream" /\ writes < MaxWrites
    /\ writes' = writes + 1
    /\ status_message' =
          write(Called(status_message), Tag(m, writes + 1), now)
    /\ emitted' = emitted \cup EmittedIds(status_message')
    /\ UNCHANGED <<sessionVars, indexVars, helperVars, publisherVars, now,
                   rewritten>>

\* src/src/status.py:72-82  a call of write_line(m)
WriteLine(m) ==
    /\ pc = "stream" /\ writes < MaxWrites
    /\ writes' = writes + 1
    /\ status_message' =
          write_line(Called(status_message), Tag(m, writes + 1),
                     "STANDARD", now)
    /\ emitted' = emitted \cup EmittedIds(status_message')
    /\ UNCHANGED <<sessionVars, indexVars, helperVars, publisherVars, now,
                   rewritten>>

\* src/src/status.py:93-95  a call of rewrite_line(m)
RewriteLine(m) ==
    /\ pc = "stream" /\ writes < MaxWrites
    /\ writes' = writes + 1
    /\ status_message' =
          rewrite_line(Called(status_message), Tag(m, writes + 1), now)
    /\ emitted' = emitted \cup EmittedIds(status_message')
    /\ rewritten' = rewritten \cup
          (Ids(status_message.buffered_text)
              \ Ids(rsplit(status_message.buffered_text)))
    /\ UNCHANGED <<sessionVars, indexVars, helperVars, publisherVars, now>>

\* src/src/status.py:97-108  a call of flush()
Flush ==
    /\ pc = "stream"
    /\ status_message' = flush(Called(status_message), now)
    /\ emitted' = emitted \cup EmittedIds(status_message')
    /\ UNCHANGED <<sessionVars, indexVars, helperVars, publisherVars, now,
                   writes, rewritten>>

\* time.time() moves on by a quarter of a second
Tick ==
    /\ pc \in {"stream", "client"}
    /\ now < _flush_time + 1 + MaxTicks
    /\ now' = now + 1
    /\ UNCHANGED <<sessionVars, indexVars, helperVars, publisherVars,
                   status_message, writes, emitted, rewritten>>

\* --------------------------------------------------------- the indexing pass
\* the keyword arguments as_unique is called with (src/src/morticia.py:282,
\* 294, 304, 306); the other columns are set by update. closed_at and
\* merged_at, which update may leave alone, are None (0) in a new object
RepoRow == [repo_id |-> RepoName]

PullKey(n) ==
    [repo_id |-> RepoName, pull_request_id |-> n, title |-> "unset",
     merged |-> "unset", created_at |-> "unset", closed_at |-> 0,
     merged_at |-> 0]

FileRow(file) == [repo_id |-> RepoName, file_path |-> file.filename]

ChangeKey(n, file) ==
    [repo_id |-> RepoName, pull_request_id |-> n,
     file_path |-> file.filename, status |-> "unset",
     previous_file_path |-> "unset"]

\* src/src/model.py:135-152  the values KnownPullRequest.update reads from
\* repo.get_pull(n), as a row; a time of 0 is None
PullRow(n) ==
    [PullKey(n) EXCEPT !.title = "title", !.merged = github[n].merged,
                       !.created_at = github[n].created_at,
                       !.closed_at = github[n].closed_at,
                       !.merged_at = github[n].merged_at]

\* src/src/model.py:187-195  the row KnownFileChange.update makes of a file
ChangeRow(n, file) ==
    [ChangeKey(n, file) EXCEPT !.status = file.status,
                               !.previous_file_path = file.previous_filename]

\* src/src/morticia.py:285  repo.get_pulls(state="all",
\* direction="desc").get_page(0)[0].number
highest_pull_request_id ==
    CHOOSE n \in 1..MaxPulls :
        github[n].pr /\ \A j \in 1..MaxPulls : github[j].pr => j <= n

\* src/src/morticia.py:278-286  index_repo up to its loop: the KnownRepo row
\* is committed and the loop starts at the highest pull request number
IndexRepo ==
    /\ index_pc = "idle" /\ passes < MaxPasses
    /\ passes' = passes + 1
    /\ LET S == _unique(session, db, "KnownRepo", RepoRow) IN
         /\ db' = commit(db, S)
         /\ orphans' = orphans \cup Orphans(db, S.new)
         /\ session' = Cleared(S)
    /\ index_i' = highest_pull_request_id
    /\ index_pc' = "loop"
    /\ UNCHANGED <<sessionVars, statusVars, helperVars, queryVars, github,
                   files_left>>

\* src/src/morticia.py:286  range(highest_pull_request_id, 1, -1) is
\* exhausted: index_repo returns
EndOfLoop ==
    /\ index_pc = "loop" /\ ~(index_i > 1)
    /\ index_pc' = "idle"
    /\ UNCHANGED <<sessionVars, statusVars, helperVars, queryVars, github,
                   index_i, files_left, session, db, orphans, passes>>

\* src/src/morticia.py:289-292  repo.get_pull(i) raises
\* UnknownObjectException: continue
UnknownObject ==
    /\ index_pc = "loop" /\ index_i > 1 /\ ~github[index_i].pr
    /\ index_i' = index_i - 1
    /\ UNCHANGED <<sessionVars, statusVars, helperVars, queryVars, github,
                   index_pc, files_left, session, db, orphans, passes>>

\* src/src/morticia.py:289-302  the pull request row is made or found,
\* updated and committed; with no changed files the loop continues,
\* otherwise get_files is iterated
IndexPull ==
    /\ index_pc = "loop" /\ index_i > 1 /\ github[index_i].pr
    /\ LET S == update(_unique(session, db, "KnownPullRequest",
                               PullKey(index_i)),
                       db, "KnownPullRequest", PullRow(index_i))
       IN  /\ db' = commit(db, S)
           /\ orphans' = orphans \cup Orphans(db, S.new)
           /\ session' = Cleared(S)
    /\ IF Cardinality(github[index_i].files) = 0
       THEN /\ index_i' = index_i - 1
            /\ UNCHANGED <<index_pc, files_left>>
       ELSE /\ files_left' = github[index_i].files
            /\ index_pc' = "files"
            /\ UNCHANGED index_i
    /\ UNCHANGED <<sessionVars, statusVars, helperVars, queryVars, github,
                   passes>>

\* src/src/morticia.py:302-308  one turn of the loop over get_files()
IndexFile(file) ==
    /\ index_pc = "files" /\ file \in files_left
    /\ session' =
          update(_unique(_unique(session, db, "KnownFile", FileRow(file)),
                         db, "KnownFileChange", ChangeKey(index_i, file)),
                 db, "KnownFileChange", ChangeRow(index_i, file))
    /\ files_left' = files_left \ {file}
    /\ index_pc' = (IF files_left' = {} THEN "sleep" ELSE "files")
    /\ UNCHANGED <<sessionVars, statusVars, helperVars, queryVars, github,
                   index_i, db, orphans, passes>>

\* src/src/morticia.py:310-312  after asyncio.sleep(1): commit, next i
CommitFiles ==
    /\ index_pc = "sleep"
    /\ db' = commit(db, session)
    /\ orphans' = orphans \cup Orphans(db, session.new)
    /\ session' = Cleared(session)
    /\ index_i' = index_i - 1
    /\ index_pc' = "loop"
    /\ UNCHANGED <<sessionVars, statusVars, helperVars, queryVars, github,
                   files_left, passes>>

\* src/src/bot.py:39-40  while index_repo sleeps (src/src/morticia.py:310)
\* another command of the bot fails: handle_exception rolls back the
\* Session the bot shares with Morticia (src/main.py:257-259)
handle_exception ==
    /\ index_pc = "sleep"
    /\ session.new # << >>
    /\ session' = Cleared(session)
    /\ UNCHANGED <<sessionVars, statusVars, helperVars, queryVars, github,
                   index_pc, index_i, files_left, db, orphans, passes>>

\* src/src/morticia.py:290, 302  repo.get_pull(i), or the request of
\* get_files(), fails with another exception than UnknownObjectException:
\* index_repo ends with it, handle_exception rolls back (src/src/bot.py:40)
GitHubFails ==
    /\ \/ index_pc = "loop" /\ index_i > 1
       \/ index_pc = "files" /\ files_left = github[index_i].files
    /\ session' = Cleared(session)
    /\ index_pc' = "idle"
    /\ UNCHANGED <<sessionVars, statusVars, helperVars, queryVars, github,
                   index_i, files_left, db, orphans, passes>>

\* between two passes an open pull request of the repository is merged
Merged(n) ==
    /\ index_pc = "idle" /\ passes > 0 /\ passes < MaxPasses
    /\ github[n].pr /\ ~github[n].merged /\ github[n].closed_at = 0
    /\ github' = [github EXCEPT ![n].merged = TRUE, ![n].merged_at = 2,
                                ![n].closed_at = 2]
    /\ UNCHANGED <<sessionVars, statusVars, helperVars, queryVars, index_pc,
                   index_i, files_left, session, db, orphans, passes>>

\* between two passes a pull request that was closed without a merge is
\* reopened: repo.get_pull (src/src/morticia.py:290) reports no closed time
Reopened(n) ==
    /\ index_pc = "idle" /\ passes > 0 /\ passes < MaxPasses
    /\ github[n].pr /\ ~github[n].merged /\ github[n].closed_at # 0
    /\ github' = [github EXCEPT ![n].closed_at = 0]
    /\ UNCHANGED <<sessionVars, statusVars, helperVars, queryVars, index_pc,
                   index_i, files_left, session, db, orphans, passes>>

\* ------------------------------------------------------------- the queries
\* src/src/morticia.py:372-429  get_ancestors(pr_id) for pull request x of
\* the repository: median_pr is what GitHub returns for it
get_ancestors(x) ==
    /\ pc = "query" /\ x \in DOMAIN github /\ github[x].pr
    /\ query' = "ancestors" /\ seed' = x
    /\ \E l \in sort_by_oldest(ancestors(db, github[x])) : links' = Links(l)
    /\ UNCHANGED <<sessionVars, statusVars, helperVars, github, index_pc,
                   index_i, files_left, session, db, orphans, passes>>

\* src/src/morticia.py:431-485  get_descendants(pr_id)
get_descendants(x) ==
    /\ pc = "query" /\ x \in DOMAIN github /\ github[x].pr
    /\ query' = "descendants" /\ seed' = x
    /\ \E l \in sort_by_oldest(descendants(db, github[x])) :
          links' = Links(l)
    /\ UNCHANGED <<sessionVars, statusVars, helperVars, github, index_pc,
                   index_i, files_left, session, db, orphans, passes>>

\* src/src/morticia.py:331-359  a caller of search_for_file_changes
SearchForFileChanges(path, repo_id, merged_only, ignore_upstream_merges) ==
    /\ pc = "search"
    /\ query' = [path |-> path, repo_id |-> repo_id,
                 merged_only |-> merged_only,
                 ignore_upstream_merges |-> ignore_upstream_merges]
    /\ links' = search_for_file_changes(db, path, repo_id, merged_only,
                                        ignore_upstream_merges)
    /\ UNCHANGED <<sessionVars, statusVars, helperVars, github, index_pc,
                   index_i, files_left, session, db, orphans, passes, seed>>

\* ------------------------------------------------- opening a working copy
\* src/src/git.py:14  REPOSITORIES_DIR = "./repositories": a path from the
\* directory the process runs in, as a list of names
REPOSITORIES_DIR == <<"repositories">>

\* src/src/git.py:30-31  RepoId.slug of the repository
RepoSlug == "org-repo"

\* src/src/git.py:370  repo_dir = f"{REPOSITORIES_DIR}/{repo_id.slug()}"
repo_dir == REPOSITORIES_DIR \o <<RepoSlug>>

\* src/src/git.py:204-210  subprocess runs the command with cwd set to
\* working_directory: a relative path in the command names a place under it
Resolved(working_directory, path) == working_directory \o path

\* src/src/git.py:15, 373  os.path.exists: REPOSITORIES_DIR was made when
\* the module was loaded
exists(dirs, path) == path = REPOSITORIES_DIR \/ path \in dirs

\* src/src/git.py:365-378  LocalRepo.open(repo_id, default_branch).  The
\* clone runs in REPOSITORIES_DIR and is told to clone into repo_dir; git
\* fails when that place holds something, and may fail for other reasons.
\* "branch -u" runs in self.path, which is repo_dir: no subprocess starts
\* in a directory that is not there (FileNotFoundError)
open(default_branch) ==
    /\ pc = "open" /\ Len(opened) < MaxOpens
    /\ \E clone_ok, branch_ok \in BOOLEAN :
          LET target == Resolved(REPOSITORIES_DIR, repo_dir)
              clones == ~exists(directories, repo_dir)
              clone_done == clones /\ clone_ok /\ ~exists(directories, target)
              dirs == IF clone_done THEN directories \cup {target}
                      ELSE directories
              up == IF clone_done
                    THEN (target :> <<"origin", "HEAD">>) @@ upstream
                    ELSE upstream
              result == IF clones /\ ~clone_done THEN "GitCommandException"
                        ELSE IF ~exists(dirs, repo_dir)
                             THEN "FileNotFoundError"
                        ELSE IF ~branch_ok THEN "GitCommandException"
                        ELSE "LocalRepo"
          IN  /\ directories' = dirs
              /\ cloned' = cloned + (IF clone_done THEN 1 ELSE 0)
              /\ upstream' = IF result = "LocalRepo"
                             THEN (repo_dir :> <<"origin", default_branch>>)
                                      @@ up
                             ELSE up
              /\ opened' = Append(opened, [result |-> result,
                                           default_branch |-> default_branch])
    /\ UNCHANGED <<sessionVars, statusVars, indexVars, sideVars, repo_ids, message,
                   qualified, called>>

\* ---------------------------------------------------------- the identifiers
\* a string is the list of its characters; the address of GitHub counts
\* as one character
GITHUB_URL == <<"https://github.com/">>

\* str.lower, character by character
lower(s) ==
    [i \in DOMAIN s |-> CASE s[i] = "A" -> "a"
                           [] s[i] = "B" -> "b"
                           [] s[i] = "R" -> "r"
                           [] OTHER -> s[i]]

\* str.split("/"): the pieces between the slashes
RECURSIVE split(_)
split(s) ==
    IF \A i \in DOMAIN s : s[i] # "/" THEN <<s>>
    ELSE LET i == CHOOSE i \in DOMAIN s :
                     s[i] = "/" /\ \A j \in 1..(i - 1) : s[j] # "/"
         IN  <<SubSeq(s, 1, i - 1)>> \o split(SubSeq(s, i + 1, Len(s)))

\* str.replace(old, ""), old being one character
removed(s, old) == SelectSeq(s, LAMBDA c : c # old)

\* slugify of the python-slugify package: lower case, every run of
\* characters that are no letters or digits becomes one "-", and no "-" at
\* either end
RECURSIVE hyphenated(_)
hyphenated(s) ==
    IF s = << >> THEN << >>
    ELSE LET c == IF Head(s) \in {"a", "b", "r"} THEN Head(s) ELSE "-"
             rest == hyphenated(Tail(s))
         IN  IF c = "-" /\ (rest = << >> \/ Head(rest) = "-") THEN rest
             ELSE <<c>> \o rest

slugify(s) ==
    LET h == hyphenated(lower(s))
    IN  IF h # << >> /\ Head(h) = "-" THEN Tail(h) ELSE h

\* src/src/git.py:18-24  RepoId(org_name, repo_name), the n-th object made.
\* The class defines no __eq__: == on two RepoId is the identity of object
RepoId(n, org_name, repo_name) ==
    [object |-> n, org_name |-> org_name, repo_name |-> repo_name]

eq(a, b) == a.object = b.object

\* src/src/git.py:26-27  __repr__, which str() uses
str(repo_id) == lower(repo_id.org_name \o <<"/">> \o repo_id.repo_name)

\* src/src/git.py:29-30  url
url(repo_id) == GITHUB_URL \o str(repo_id) \o <<"/">>

\* src/src/git.py:32-33  slug
slug(repo_id) == slugify(str(repo_id))

\* src/src/git.py:35-42  from_url, for the n-th object made
from_url(n, u) ==
    LET parts == split(removed(u, GITHUB_URL[1]))
    IN  RepoId(n, lower(parts[1]), lower(parts[2]))

\* a caller makes a RepoId with the constructor
NewRepoId(org_name, repo_name) ==
    /\ pc = "ids" /\ Len(repo_ids) < 2
    /\ repo_ids' = Append(repo_ids,
                          [id |-> RepoId(Len(repo_ids) + 1, org_name,
                                         repo_name),
                           org |-> org_name, repo |-> repo_name])
    /\ UNCHANGED <<sessionVars, statusVars, indexVars, sideVars, directories, upstream,
                   cloned, opened, message, qualified, called>>

\* a caller makes a RepoId from the address of the repository, written
\* with or without the slash at its end
RepoIdFromUrl(org_name, repo_name, slash) ==
    /\ pc = "ids" /\ Len(repo_ids) < 2
    /\ repo_ids' = Append(repo_ids,
                          [id |-> from_url(Len(repo_ids) + 1,
                                           GITHUB_URL \o org_name \o <<"/">>
                                              \o repo_name \o slash),
                           org |-> org_name, repo |-> repo_name])
    /\ UNCHANGED <<sessionVars, statusVars, indexVars, sideVars, directories, upstream,
                   cloned, opened, message, qualified, called>>

\* ------------------------------------------------------ issue references
\* str(repo_id) of the repository of the ported change, one character of
\* the text: it begins and ends with a letter and holds no "#"
RepoText == "org/repo"

\* \w and \d of the pattern, over the characters of the texts
Word == {"a", "1", "2", RepoText}

Digit == {"1", "2"}

\* the class of the pattern that excludes \w and the backtick
Delimiter(c) == c \notin Word \cup {"backtick"}

\* \d+ is greedy: the digits of s from position i on
RECURSIVE Digits(_, _)
Digits(s, i) ==
    IF i <= Len(s) /\ s[i] \in Digit THEN <<s[i]>> \o Digits(s, i + 1)
    ELSE << >>

\* the reference and what follows it, with the "#" at position h: the position of the last
\* character matched, 0 when there is no match.  Fewer digits than all of
\* them never match, a digit being neither a delimiter nor the end
Reference(s, h) ==
    LET after == h + 1 + Len(Digits(s, h + 1))
    IN  IF h > Len(s) \/ s[h] # "#" \/ Digits(s, h + 1) = << >> THEN 0
        ELSE IF after > Len(s) THEN Len(s)
        ELSE IF Delimiter(s[after]) THEN after
        ELSE 0

\* src/src/utils.py:37  IMPLICIT_ISSUE_PATTERN matched at position p:
\* where the "#" is and where the match ends, the first alternative (the
\* start of the text) being tried before the second (one character)
Match(s, p) ==
    IF p = 1 /\ Reference(s, 1) > 0
    THEN [hash |-> 1, end |-> Reference(s, 1)]
    ELSE IF Delimiter(s[p]) /\ Reference(s, p + 1) > 0
    THEN [hash |-> p + 1, end |-> Reference(s, p + 1)]
    ELSE [hash |-> 0, end |-> 0]

\* src/src/utils.py:45  the text put in the place of a match
Replacement(digits) == <<" ", "backtick", RepoText, "#">> \o digits \o <<"backtick">>

\* re.sub from position p on: the matches are found from left to right and
\* the search goes on after the last character of a match
RECURSIVE sub(_, _)
sub(s, p) ==
    IF p > Len(s) THEN << >>
    ELSE IF Match(s, p).hash > 0
    THEN Replacement(Digits(s, Match(s, p).hash + 1))
             \o sub(s, Match(s, p).end + 1)
    ELSE <<s[p]>> \o sub(s, p + 1)

\* src/src/utils.py:38-45  qualify_implicit_issues(message, repo_id)
qualify_implicit_issues(s) == sub(s, 1)

\* src/src/morticia.py:238-245  create_pull_request qualifies the body; a
\* second call is given what the first returned
Qualify ==
    /\ pc = "text" /\ Len(qualified) < 2
    /\ qualified' =
          Append(qualified,
                 qualify_implicit_issues(IF qualified = << >> THEN message
                                         ELSE qualified[Len(qualified)]))
    /\ UNCHANGED <<sessionVars, statusVars, indexVars, sideVars, directories, upstream,
                   cloned, opened, repo_ids, message, called>>

\* ------------------------------------------------------- the edit dialog
\* the conflicted content of the file of page p, as MergeConflict.content
\* holds it, and what an operator may leave in the text field of the modal:
\* the prefilled value or a replacement
ConflictContent(p) == <<"conflicted", p>>

ReplacementText(p) == <<"resolved", p>>

Typed(p) == {ConflictContent(p), ReplacementText(p)}

\* src/src/git.py:108-117 and src/src/ui/pages.py:84-100  the view of page
\* p and its new MergeConflict: proposed_content is the content, the
\* resolution is UNSELECTED, no modal was sent
NewView(p) ==
    [resolution |-> "UNSELECTED", content |-> ConflictContent(p),
     proposed_content |-> ConflictContent(p), modal |-> "none"]

\* src/src/ui/pages.py:144-149  MergeConflictView.edit of page p:
\* conflict.take_manual() (src/src/git.py:128-129), then send_modal with a
\* new ResolveConflictModal; the handler ends with the modal on screen
MergeConflictView_edit(p) ==
    /\ pc = "paging" /\ p \in 1..Len(views)
    /\ views' = [views EXCEPT ![p].resolution = "MANUAL",
                              ![p].modal = "open"]
    /\ UNCHANGED <<pc, sessionData, statusVars, indexVars, directories,
                   upstream, cloned, opened, repo_ids, message, qualified,
                   called, workers, tmp_patch>>

\* src/src/ui/pages.py:74-77  ResolveConflictModal.callback, run when the
\* operator submits the modal of page p with text in its field
ResolveConflictModal_callback(p, text) ==
    /\ pc = "paging" /\ p \in 1..Len(views)
    /\ views[p].modal = "open"
    /\ views' = [views EXCEPT ![p].proposed_content = text,
                              ![p].modal = "submitted"]
    /\ UNCHANGED <<pc, sessionData, statusVars, indexVars, directories,
                   upstream, cloned, opened, repo_ids, message, qualified,
                   called, workers, tmp_patch>>

\* the operator closes the modal of page p without submitting it: no
\* handler of src/src/ui/pages.py:54-77 runs
DismissModal(p) ==
    /\ pc = "paging" /\ p \in 1..Len(views)
    /\ views[p].modal = "open"
    /\ views' = [views EXCEPT ![p].modal = "dismissed"]
    /\ UNCHANGED <<pc, sessionData, statusVars, indexVars, directories,
                   upstream, cloned, opened, repo_ids, message, qualified,
                   called, workers, tmp_patch>>

\* src/src/ui/pages.py:151-156  MergeConflictView.ours of page p
\* (conflict.take_ours, src/src/git.py:122-123)
MergeConflictView_ours(p) ==
    /\ pc = "paging" /\ p \in 1..Len(views)
    /\ views' = [views EXCEPT ![p].resolution = "OURS"]
    /\ UNCHANGED <<pc, sessionData, statusVars, indexVars, directories,
                   upstream, cloned, opened, repo_ids, message, qualified,
                   called, workers, tmp_patch>>

\* src/src/ui/pages.py:158-163  MergeConflictView.theirs of page p
\* (conflict.take_theirs, src/src/git.py:125-126)
MergeConflictView_theirs(p) ==
    /\ pc = "paging" /\ p \in 1..Len(views)
    /\ views' = [views EXCEPT ![p].resolution = "THEIRS"]
    /\ UNCHANGED <<pc, sessionData, statusVars, indexVars, directories,
                   upstream, cloned, opened, repo_ids, message, qualified,
                   called, workers, tmp_patch>>

\* src/src/git.py:131-135  what MergeConflict.resolve writes into the file
\* of a conflict decided MANUAL
Written(view) == view.proposed_content

\* ------------------------------------------------- sessions side by side
\* the port sessions of two start_port calls (src/src/bot.py:82-104), each a
\* task of the event loop with its own LocalRepo
Sessions == {1, 2}

\* the content found at the patch URL of the pull request session s ports
PatchOf(s) == <<"patch", s>>

\* the positions at which the subprocess of a session is alive
Running(s) == workers[s].pc \in {"running", "am_spawned", "am_read"}

\* src/src/git.py:220-225 and 204-210  LocalRepo.git up to the creation of
\* the subprocess in the directory of the LocalRepo of session s; status
\* is None (src/src/git.py:171), so nothing is awaited before it
StartCommand(s) ==
    /\ pc = "sessions"
    /\ workers[s].pc = "idle" /\ workers[s].issued < MaxCalls
    /\ workers' = [workers EXCEPT ![s].pc = "running",
                                  ![s].issued = @ + 1]
    /\ UNCHANGED tmp_patch
    /\ UNCHANGED <<pc, sessionData, statusVars, indexVars, directories,
                   upstream, cloned, opened, repo_ids, message, qualified,
                   called, views>>

\* src/src/git.py:211-218  proc.communicate() returns to session s: its
\* subprocess has exited
CommandExits(s) ==
    /\ pc = "sessions"
    /\ workers[s].pc \in {"running", "am_read"}
    /\ workers' = [workers EXCEPT ![s].pc = "idle"]
    /\ UNCHANGED tmp_patch
    /\ UNCHANGED <<pc, sessionData, statusVars, indexVars, directories,
                   upstream, cloned, opened, repo_ids, message, qualified,
                   called, views>>

\* src/src/git.py:286-289, 273, 257 and 204-210
\* apply_patch_from_url_conflict_resolving of session s: the patch is
\* downloaded and written to tmp.patch, and "git am ../../tmp.patch" is
\* started in the directory of the LocalRepo, all before the coroutine
\* awaits anything
DownloadAndStartAm(s) ==
    /\ pc = "sessions"
    /\ workers[s].pc = "idle" /\ workers[s].applied = "None"
    /\ tmp_patch' = PatchOf(s)
    /\ workers' = [workers EXCEPT ![s].pc = "am_spawned"]
    /\ UNCHANGED <<pc, sessionData, statusVars, indexVars, directories,
                   upstream, cloned, opened, repo_ids, message, qualified,
                   called, views>>

\* the "git am" subprocess of session s opens and reads ../../tmp.patch,
\* at some time after it was started (src/src/git.py:289: the path leads
\* from any working copy to the one file)
GitAmReads(s) ==
    /\ pc = "sessions"
    /\ workers[s].pc = "am_spawned"
    /\ workers' = [workers EXCEPT ![s].pc = "am_read",
                                  ![s].applied = tmp_patch]
    /\ UNCHANGED tmp_patch
    /\ UNCHANGED <<pc, sessionData, statusVars, indexVars, directories,
                   upstream, cloned, opened, repo_ids, message, qualified,
                   called, views>>

\* ---------------------------------------------------------- specifications
UIActions ==
    \/ Ours \/ Theirs \/ Edit \/ FixLater
    \/ \E p \in 1..MaxConflicts : GotoPage(p)
    \/ PressContinue \/ PressCancel \/ on_timeout

PortActions ==
    \/ \E ok, has_token \in BOOLEAN : PrepareRepo(ok, has_token)
    \/ \E ok, merged \in BOOLEAN, parents \in 1..MaxParents :
          AddPullRequest(ok, merged, parents)
    \/ \E r \in GitResults, n \in 1..MaxConflicts : ApplyPatch(r, n)
    \/ \E r \in GitResults, n \in 1..MaxConflicts : CherryPick(r, n)
    \/ \E r \in GitResults : FinishAdding(r)
    \/ \E ok \in BOOLEAN : CreatePullRequest(ok)

NaiveActions ==
    \/ \E r \in GitResults : NaiveAdd(r)
    \/ \E r \in GitResults : NaiveContinue(r)

\* the port session as the code composes it
Next ==
    \/ __enter__ \/ __exit__
    \/ PortActions \/ NaiveActions \/ UIActions \/ Resume

Spec == Init /\ [][Next]_vars

\* the port session when respond returns the operator's decision
DeliveredActions ==
    \/ Deliver
    \/ \E r1, r2 \in BOOLEAN : ResolveConflict(r1, r2)
    \/ \E r \in GitResults, n \in 1..MaxConflicts : ContinueMerge(r, n)

NextDelivered == Next \/ DeliveredActions

SpecDelivered == Init /\ [][NextDelivered]_vars

\* a client calling the conflict-resolving operations of LocalRepo
InitRepo ==
    /\ pc = "api_idle" /\ caller = "api" /\ InitCommon
    /\ NoIndexing /\ NoHelpers
    /\ branch = "None" /\ branch_state = {}

NextRepo ==
    \/ \E r \in GitResults, n \in 1..MaxConflicts : cherry_pick_conflict_resolving(r, n)
    \/ \E r \in GitResults, n \in 1..MaxConflicts : apply_patch_conflict_resolving(r, n)
    \/ NaiveActions

SpecRepo == InitRepo /\ [][NextRepo]_vars

\* tables that earlier ports can have left behind: the row a port of each
\* change wrote for its branch
StoredTables ==
    SUBSET {[branch |-> PrSlug, pull_request_id |-> PrId],
            [branch |-> PrevSlug, pull_request_id |-> PrevId]}

\* a port session that finds rows of earlier ports, made by a new Project
\* or by the Project that ported PrevId and keeps its branch
\* (src/src/morticia.py:75-81)
InitResumed ==
    /\ pc = "enter" /\ caller = "project" /\ InitCommon
    /\ NoIndexing /\ NoHelpers
    /\ branch_state \in StoredTables
    /\ branch \in {"None", PrevSlug}
    /\ branch = PrevSlug =>
          [branch |-> PrevSlug, pull_request_id |-> PrevId] \in branch_state

SpecResumed == InitResumed /\ [][Next]_vars

\* a client that enters and leaves one Project and publishes events to it
InitProject ==
    /\ pc = "client" /\ caller = "client" /\ InitCommon
    /\ NoIndexing /\ NoHelpers
    /\ branch = "None" /\ branch_state = {}

Titles == {"standard", "command", "comment", "error"}

NextProject ==
    \/ __enter__ \/ __exit__ \/ Tick
    \/ \E title \in Titles, m \in {Chars(1), Token} : Publish(title, m)
    \/ \E r \in {GitOk, GitFatal} : RunGit(r)

SpecProject == InitProject /\ [][NextProject]_vars

\* the indexing command: a repository with at least one pull request, each
\* with the files it changed, and a Session that has indexed nothing yet
IndexFiles ==
    {File("a.txt", "modified", "None"), File("b.txt", "modified", "None")}

Repositories ==
    {g \in [1..MaxPulls ->
              {NotAPull} \cup
              {[pr |-> TRUE, merged |-> FALSE, created_at |-> 1,
                closed_at |-> c, merged_at |-> 0, files |-> fs] :
                  c \in {0, 1}, fs \in SUBSET IndexFiles}] :
        \E n \in 1..MaxPulls : g[n].pr}

InitIndex ==
    /\ pc = "index" /\ caller = "index" /\ InitCommon
    /\ branch = "None" /\ branch_state = {}
    /\ github \in Repositories
    /\ index_pc = "idle" /\ index_i = 0 /\ files_left = {}
    /\ session = EmptySession /\ db = EmptyDb /\ orphans = {}
    /\ passes = 0 /\ NoQuery /\ NoHelpers

NextIndex ==
    \/ IndexRepo \/ EndOfLoop \/ UnknownObject \/ IndexPull
    \/ \E file \in IndexFiles : IndexFile(file)
    \/ CommitFiles \/ handle_exception \/ GitHubFails
    \/ \E n \in 1..MaxPulls : Merged(n)
    \/ \E n \in 1..MaxPulls : Reopened(n)

SpecIndex == InitIndex /\ [][NextIndex]_vars

\* the queries, asked about a repository that a complete pass has indexed:
\* number 1 is no pull request, every other number is one, merged at some
\* time or not, with the files it changed
Times == {1, 2, 3}

QueryFiles ==
    {{File("a.txt", "modified", "None")},
     {File("b.txt", "renamed", "a.txt")},
     {File("a.txt", "modified", "None"),
      File(ChangelogPath, "modified", "None")},
     {File("Resources/Prototypes/tags.yml", "modified", "None")},
     {File("a.txt", "added", "None"),
      File("Resources/Prototypes/tags.yml", "added", "None")}}

\* the files of a pull request that is still open
OpenFiles ==
    {{File("a.txt", "modified", "None")},
     {File("a.txt", "added", "None"),
      File("Resources/Prototypes/tags.yml", "added", "None")}}

QueryPulls ==
    {[pr |-> TRUE, merged |-> TRUE, created_at |-> 1, closed_at |-> t,
      merged_at |-> t, files |-> fs] : t \in Times, fs \in QueryFiles}
    \cup {[pr |-> TRUE, merged |-> FALSE, created_at |-> 2, closed_at |-> 0,
           merged_at |-> 0, files |-> fs] : fs \in OpenFiles}

RECURSIVE SeqOf(_)
SeqOf(S) ==
    IF S = {} THEN << >>
    ELSE LET x == CHOOSE x \in S : TRUE IN <<x>> \o SeqOf(S \ {x})

\* the rows a complete pass of index_repo has stored for the repository
CompleteIndex ==
    LET pulls == {n \in DOMAIN github : github[n].pr}
        changes == SeqOf(UNION {{<<n, file>> : file \in github[n].files} :
                                  n \in pulls})
        files == SeqOf(UNION {github[n].files : n \in pulls})
        numbers == SeqOf(pulls)
    IN  [known_repos |-> <<RepoRow>>,
         known_pull_requests |->
            [j \in 1..Len(numbers) |-> PullRow(numbers[j])],
         known_files |->
            SeqOf({FileRow(files[j]) : j \in 1..Len(files)}),
         known_file_changes |->
            [j \in 1..Len(changes) |-> ChangeRow(changes[j][1],
                                                 changes[j][2])]]

InitQuery ==
    /\ pc = "query" /\ caller = "query" /\ InitCommon
    /\ branch = "None" /\ branch_state = {}
    /\ \E g \in [2..(MaxChanges + 1) -> QueryPulls] :
          github = [n \in 1..(MaxChanges + 1) |->
                       IF n = 1 THEN NotAPull ELSE g[n]]
    /\ index_pc = "idle" /\ index_i = 0 /\ files_left = {}
    /\ session = EmptySession /\ db = CompleteIndex /\ orphans = {}
    /\ passes = 0 /\ NoQuery /\ NoHelpers

NextQuery ==
    \/ \E x \in 1..(MaxChanges + 1) : get_ancestors(x)
    \/ \E x \in 1..(MaxChanges + 1) : get_descendants(x)

SpecQuery == InitQuery /\ [][NextQuery]_vars

\* callers of the three operations that detect conflicts; what a call of
\* conflicts() can give
Enumerations ==
    {[raised |-> FALSE, n |-> n, exc |-> NoExc] : n \in 1..MaxConflicts}
    \cup {[raised |-> TRUE, n |-> 0, exc |-> e] :
             e \in {GitCommandException(GitFatal),
                    OtherException("UnicodeDecodeError")}}

InitConflicts ==
    /\ pc = "git" /\ caller = "git" /\ InitCommon /\ NoIndexing /\ NoHelpers
    /\ branch = "None" /\ branch_state = {}

NextConflicts ==
    \/ \E r \in GitResults, c \in Enumerations : CallApplyPatch(r, c)
    \/ \E r \in GitResults, c \in Enumerations : CallCherryPick(r, c)
    \/ \E r \in GitResults, c \in Enumerations :
          \E command \in {"am", "cherry-pick"} :
             CallContinueMerge(command, r, c)

SpecConflicts == InitConflicts /\ [][NextConflicts]_vars

\* callers that make two identifiers, of names written in either case
Names(letters, n) == UNION {[1..size -> letters] : size \in 1..n}

OrgNames == Names({"a", "A", "b"}, MaxName)

RepoNames == Names({"r", "R"}, 1)

InitIds ==
    /\ pc = "ids" /\ caller = "ids" /\ InitCommon /\ NoIndexing /\ NoHelpers
    /\ branch = "None" /\ branch_state = {}

NextIds ==
    \/ \E org_name \in OrgNames, repo_name \in RepoNames :
          NewRepoId(org_name, repo_name)
    \/ \E org_name \in OrgNames, repo_name \in RepoNames :
          \E slash \in {<< >>, <<"/">>} :
             RepoIdFromUrl(org_name, repo_name, slash)

SpecIds == InitIds /\ [][NextIds]_vars

\* the bodies of the pull requests: texts of letters, digits, "#", spaces
\* and backticks (a backtick is written "backtick")
Bodies == UNION {[1..size -> {"#", "1", "2", " ", "a", "backtick"}] :
                   size \in 0..MaxLen}

InitText ==
    /\ pc = "text" /\ caller = "text" /\ InitCommon /\ NoIndexing
    /\ branch = "None" /\ branch_state = {}
    /\ directories = {} /\ upstream = << >> /\ cloned = 0 /\ opened = << >>
    /\ repo_ids = << >>
    /\ message \in Bodies /\ qualified = << >> /\ called = "None"
    /\ NoSide

NextText == Qualify

SpecText == InitText /\ [][NextText]_vars

\* callers of LocalRepo.open, on a disk where the working copy is missing
\* or was made before, its default branch following some upstream or none
DefaultBranches == {"main", "master"}

InitOpen ==
    /\ pc = "open" /\ caller = "open" /\ InitCommon /\ NoIndexing
    /\ branch = "None" /\ branch_state = {}
    /\ cloned = 0 /\ opened = << >> /\ repo_ids = << >>
    /\ message = << >> /\ qualified = << >> /\ called = "None"
    /\ \/ directories = {} /\ upstream = << >>
       \/ /\ directories = {repo_dir}
          /\ \E u \in {<<"origin", "HEAD">>, <<"origin", "main">>,
                        <<"home", "main">>, <<"None", "None">>} :
                upstream = (repo_dir :> u)
    /\ NoSide

NextOpen == \E default_branch \in DefaultBranches : open(default_branch)

SpecOpen == InitOpen /\ [][NextOpen]_vars

\* a client that calls the StatusMessage; the texts it writes
InitStatus ==
    /\ pc = "stream" /\ caller = "stream" /\ InitCommon
    /\ NoIndexing /\ NoHelpers
    /\ branch = "None" /\ branch_state = {}

Messages == {Chars(1), Chars(1987), Chars(1989), Chars(3977)}

SecretMessages ==
    {Chars(1), <<Run("T1", 1)>>, <<Run("T2", 1)>>, Token,
     Chars(1987) \o Token}

StreamActions(texts) ==
    \/ \E m \in texts : Write(m)
    \/ \E m \in texts : WriteLine(m)
    \/ \E m \in texts : RewriteLine(m)
    \/ Flush \/ Tick

NextStatus == StreamActions(Messages)

SpecStatus == InitStatus /\ [][NextStatus]_vars

NextSecrets == StreamActions(SecretMessages)

SpecSecrets == InitStatus /\ [][NextSecrets]_vars

\* src/src/ui/pages.py:184-199  a paginator over the conflicts of a
\* MergeConflictsException, one view each
InitEdit ==
    /\ pc = "paging" /\ caller = "operator" /\ InitCommon /\ NoIndexing
    /\ branch = "None" /\ branch_state = {}
    /\ directories = {} /\ upstream = << >> /\ cloned = 0 /\ opened = << >>
    /\ repo_ids = << >> /\ message = << >> /\ qualified = << >>
    /\ called = "None" /\ workers = << >> /\ tmp_patch = "None"
    /\ \E n \in 1..MaxConflicts : views = [p \in 1..n |-> NewView(p)]

NextEdit ==
    \/ \E p \in 1..MaxConflicts : MergeConflictView_edit(p)
    \/ \E p \in 1..MaxConflicts : \E text \in Typed(p) :
          ResolveConflictModal_callback(p, text)
    \/ \E p \in 1..MaxConflicts : DismissModal(p)
    \/ \E p \in 1..MaxConflicts : MergeConflictView_ours(p)
    \/ \E p \in 1..MaxConflicts : MergeConflictView_theirs(p)

SpecEdit == InitEdit /\ [][NextEdit]_vars

\* callers of the three abort operations, each with some result of the
\* command and some stderr
InitAbort ==
    /\ pc = "abort" /\ caller = "git" /\ InitCommon /\ NoIndexing /\ NoHelpers
    /\ branch = "None" /\ branch_state = {}

NextAbort ==
    \/ \E r \in GitResults, stderr \in SUBSET Phrases :
          CallAbortCherryPick(r, stderr)
    \/ \E r \in GitResults, stderr \in SUBSET Phrases :
          CallAbortMerge(r, stderr)
    \/ \E r \in GitResults, stderr \in SUBSET Phrases :
          CallAbortPatch(r, stderr)

SpecAbort == InitAbort /\ [][NextAbort]_vars

\* two port sessions, each on the working copy of some repository (the
\* same one when both come from start_port, src/src/bot.py:93)
WorkDirs == {"repositories/a", "repositories/b"}

InitSessions ==
    /\ pc = "sessions" /\ caller = "sessions" /\ InitCommon /\ NoIndexing
    /\ branch = "None" /\ branch_state = {}
    /\ directories = {} /\ upstream = << >> /\ cloned = 0 /\ opened = << >>
    /\ repo_ids = << >> /\ message = << >> /\ qualified = << >>
    /\ called = "None" /\ views = << >>
    /\ \E d \in [Sessions -> WorkDirs] :
          workers = [s \in Sessions |->
                       [dir |-> d[s], pc |-> "idle", issued |-> 0,
                        applied |-> "None"]]
    /\ tmp_patch = "None"

NextSessions ==
    \/ \E s \in Sessions : StartCommand(s)
    \/ \E s \in Sessions : CommandExits(s)
    \/ \E s \in Sessions : DownloadAndStartAm(s)
    \/ \E s \in Sessions : GitAmReads(s)

SpecSessions == InitSessions /\ [][NextSessions]_vars

\* an index of two repositories with the same pull request numbers; each
\* number of each repository is no pull request, or one, merged or not,
\* that changed a file, the changelog or both
SearchRepos == {"org/a", "org/b"}

SearchPaths == {"a.txt", ChangelogPath}

SearchSlots == {<<r, n>> : r \in SearchRepos, n \in 1..2}

SearchPulls ==
    {[pr |-> FALSE, merged |-> FALSE, paths |-> {}]}
    \cup {[pr |-> TRUE, merged |-> mg, paths |-> ps] :
             mg \in BOOLEAN, ps \in (SUBSET SearchPaths) \ {{}}}

SearchIndex(g) ==
    LET pulls == SeqOf({s \in SearchSlots : g[s].pr})
        changes == SeqOf(UNION {{<<s, path>> : path \in g[s].paths} :
                                  s \in SearchSlots})
    IN  [known_repos |-> SeqOf({[repo_id |-> r] : r \in SearchRepos}),
         known_pull_requests |->
            [j \in 1..Len(pulls) |->
                [repo_id |-> pulls[j][1], pull_request_id |-> pulls[j][2],
                 merged |-> g[pulls[j]].merged]],
         known_files |->
            SeqOf({[repo_id |-> r, file_path |-> path] :
                      r \in SearchRepos, path \in SearchPaths}),
         known_file_changes |->
            [j \in 1..Len(changes) |->
                [repo_id |-> changes[j][1][1],
                 pull_request_id |-> changes[j][1][2],
                 file_path |-> changes[j][2]]]]

InitSearch ==
    /\ pc = "search" /\ caller = "search" /\ InitCommon
    /\ branch = "None" /\ branch_state = {}
    /\ github = [n \in 1..MaxPulls |-> NotAPull]
    /\ index_pc = "none" /\ index_i = 0 /\ files_left = {}
    /\ session = EmptySession /\ orphans = {}
    /\ \E g \in [SearchSlots -> SearchPulls] : db = SearchIndex(g)
    /\ passes = 0 /\ NoHelpers
    /\ query = [path |-> "None", repo_id |-> "None", merged_only |-> FALSE,
                ignore_upstream_merges |-> FALSE]
    /\ seed = 0 /\ links = << >>

NextSearch ==
    \E path \in SearchPaths, repo_id \in SearchRepos \cup {"None"},
       merged_only \in BOOLEAN, ignore_upstream_merges \in BOOLEAN :
          SearchForFileChanges(path, repo_id, merged_only,
                               ignore_upstream_merges)

SpecSearch == InitSearch /\ [][NextSearch]_vars

\* ------------------------------------------------------------------ claims
\* C1 (as claimed): once the operator has cancelled the round, the branch is
\* not pushed, the branch state is not persisted, add_pull_request_interactive
\* does not return true and no pull request is opened.
C1_CancelAbortsSession ==
    ctx_future = "False" =>
        /\ ~pushed /\ branch_state = {}
        /\ returned # "True" /\ ~pr_opened

C3_CancelReported ==
    ctx_future = "False" =>
        /\ pag_future = "False"
        /\ \A i \in 2..Len(gitlog) :
              gitlog[i].cmd \notin {"write", "add", "checkout --ours",
                  "checkout --theirs", "am --continue", "cherry-pick --continue"}

\* C4 (as claimed): once the operator has pressed Continue (every conflict
\* decided), the future awaited by respond is completed with true.
C4_ContinueCompletesRound ==
    ctx_future = "True" => pag_future = "True"

\* C5: while a round is shown, the Continue button of the shown page is
\* enabled exactly when no conflict of the round is UNSELECTED.
C5_ContinueBlockedIffRemaining ==
    pc = "awaiting" =>
        (~cont_disabled[current_page] <=>
            \A i \in 1..Len(exc.conflicts) :
                exc.conflicts[i].resolution # "UNSELECTED")

\* C5 witness: a round of two conflicts, both decided on different pages,
\* with the Continue button of the shown page enabled.
C5_Witness ==
    /\ RoundOpen /\ Len(exc.conflicts) = 2 /\ current_page = 2
    /\ exc.conflicts[1].resolution = "OURS"
    /\ exc.conflicts[2].resolution = "MANUAL"
    /\ ~cont_disabled[current_page]

C7_FixLaterDefers ==
    [][FixLater =>
        /\ exc'.conflicts[current_page].resolution # "UNSELECTED"
        /\ pag_future' = "pending"]_vars

C9_NaiveBeforeInteractive ==
    pc = "awaiting" => naive_called

\* C10 (as claimed): the naive loop is left after a continue only by the
\* continue succeeding or by a conflict failure without the marker; a
\* failure that still carries the marker goes round the loop again.
C10_NaiveLoopRepeats ==
    (/\ pc = "api_idle" /\ Len(gitlog) > 0
     /\ gitlog[Len(gitlog)].cmd \in {"am --continue", "cherry-pick --continue"}
     /\ api_result # "True") =>
        /\ exc.type = "MergeConflictsException" /\ ~exc.marker

\* the least number of "deleted in HEAD and modified in" occurrences the
\* output of failure e can hold (src/src/git.py:175 tests for one)
MarkerOccurrences(e) == IF e.marker THEN 1 ELSE 0

\* C11 (as claimed): the naive loop takes no more turns than the initial
\* failure output has marker occurrences, and a turn ends in one of four
\* ways: its continue succeeds and the loop returns; or it fails without a
\* conflict and that failure is raised; or the conflict failure it raised is
\* inspected by the loop test and the loop goes round again; or that failure
\* is inspected, found without the marker, and raised as a conflict failure.
C11_NaiveLoopBounded ==
    [][/\ naive_iterations' <= MarkerOccurrences(initial_failure')
       /\ pc = "naive_continue" =>
            \/ pc' = "api_idle" /\ api_result' = "True"
            \/ pc' = "api_idle" /\ ~exc'.conflict /\ ~exc'.marker
            \/ pc' = "naive_add"
            \/ /\ pc' = "api_idle"
               /\ exc'.type = "MergeConflictsException" /\ ~exc'.marker]_vars

\* C12 (as claimed): a pull request opened by a session in which the naive
\* resolution was applied and succeeded (no interactive round followed) is
\* opened as a draft.
C12_NaiveResolutionDraft ==
    (pr_opened /\ naive_resolution_applied /\ rounds = 0) => pr_draft

\* C13: when add_pull_request applies the change, the method is PATCH for an
\* unmerged change whatever the parent count, PATCH for a merged change whose
\* merge commit has more than one parent, CHERRY_PICK for a merged change
\* with one parent; and the command issued is git am for PATCH and git
\* cherry-pick for CHERRY_PICK.
C13_MethodSelection ==
    [][pc = "apply" =>
        /\ ~pr_merged => method = "PATCH"
        /\ (pr_merged /\ pr_parents > 1) => method = "PATCH"
        /\ (pr_merged /\ pr_parents = 1) => method = "CHERRY_PICK"
        /\ method = "PATCH" => gitlog'[Len(gitlog')].cmd = "am"
        /\ method = "CHERRY_PICK" =>
              gitlog'[Len(gitlog')].cmd = "cherry-pick"]_vars

\* C13 witness: a merged change whose merge commit has two parents was
\* applied as a patch.
C13_Witness ==
    /\ pc = "finish" /\ pr_merged /\ pr_parents = 2 /\ method = "PATCH"
    /\ gitlog[Len(gitlog)].cmd = "am"

C16_SinkDetached ==
    [][/\ ~in_block' => _subscriptions' = {}
       /\ (/\ ~in_block /\ entries > 0
           /\ \E title \in Titles, m \in {Chars(1), Token} :
                 Publish(title, m))
             => status_message' = status_message /\ emitted' = emitted]_vars

\* the Project was entered and left twice, and an event was published
\* outside the blocks only: nothing reached the StatusMessage
C16_Witness ==
    /\ entries = 2 /\ ~in_block /\ exit_raised = "KeyError"
    /\ writes > 0 /\ status_message = StatusMessage /\ emitted = {}
    /\ _subscriptions = {} /\ Len(_subscribers) = 2

\* C17: every content the StatusMessage sends or edits into the channel, the
\* code fence included, is at most MAX_MESSAGE_LENGTH characters long.
C17_ContentWithinLimit ==
    \A i \in 1..Len(status_message.target.out) :
        len(status_message.target.out[i].content) <= MAX_MESSAGE_LENGTH

\* a write of more than two messages' worth of text, made after another
\* write: it sent two full slices, each as a message of its own
C17_Witness ==
    /\ writes = 2 /\ Len(status_message.target.out) = 2
    /\ \A i \in 1..2 :
         /\ status_message.target.out[i].kind = "send"
         /\ len(status_message.target.out[i].content)
               = MAX_MESSAGE_LENGTH - 1
    /\ status_message.target.out[1].message
          # status_message.target.out[2].message

\* C18: no text is lost at a segment boundary: once an explicit flush has
\* run, every text written so far, unless rewrite_line replaced it, has
\* appeared in some emitted content, also when a rate-limited periodic flush
\* had skipped it.
C18_NoTextLost ==
    [][Flush => (1..writes') \ rewritten' \subseteq emitted']_vars

\* C19: the flush that ends write_line emits only if more than _flush_time
\* has passed since the previous emission; an explicit flush always emits
\* the buffer, once, and restarts the interval; the first emission of a
\* segment sends a new message and later ones edit that message.
C19_RateLimiting ==
    [][LET out == status_message'.target.out
           periodic ==
               /\ Len(out) > 0
               /\ out[Len(out)].content
                     = Content(status_message'.buffered_text)
       IN  /\ (/\ \E m \in Messages \cup SecretMessages :
                     WriteLine(m) \/ RewriteLine(m)
               /\ periodic)
                 => /\ Len(out) = 1
                    /\ status_message._last_flush + _flush_time < now
           /\ Flush
                 => /\ Len(out) = 1
                    /\ out[1].content = Content(status_message.buffered_text)
                    /\ status_message'._last_flush = now
                    /\ out[1].kind = (IF status_message.next_message
                                      THEN "send" ELSE "edit")
                    /\ ~status_message'.next_message
           /\ \A i \in 1..(IF status_message' # status_message
                            THEN Len(out) ELSE 0) :
                 LET before == IF i = 1 THEN status_message.target.sent
                               ELSE out[i - 1].message
                 IN  IF out[i].kind = "send"
                     THEN out[i].message = before + 1
                     ELSE /\ out[i].message = before
                          /\ i = 1 =>
                               /\ ~status_message.next_message
                               /\ out[i].message
                                     = status_message.message]_vars

\* a line was written and emitted, then a second line was written when
\* exactly _flush_time had passed: its flush was skipped, the second line is
\* in the buffer and in no emitted content
C19_Witness ==
    /\ writes = 2 /\ emitted = {1} /\ status_message.target.out = << >>
    /\ Ids(status_message.buffered_text) = {1, 2}
    /\ status_message.buffered_text[Len(status_message.buffered_text)].c
          = "nl"
    /\ ~status_message.next_message
    /\ status_message._last_flush + _flush_time = now

\* C20: no content the StatusMessage emits contains the GitHub token,
\* whatever the sequence of writes, also when a message is cut into several
\* segments or the token's characters arrive in two consecutive writes.
C20_TokenNeverEmitted ==
    \A i \in 1..Len(status_message.target.out) :
        ~ContainsToken(status_message.target.out[i].content)

\* C21: when index_repo has completed, every pull request of the repository,
\* from number 1 to the highest, has a row with its metadata, and every file
\* of a pull request that changed files has a file row and a file-change
\* row of that pull request.
C21_IndexComplete ==
    [][EndOfLoop =>
         \A n \in 1..MaxPulls :
            github[n].pr =>
              /\ \E j \in 1..Len(db'.known_pull_requests) :
                    db'.known_pull_requests[j] = PullRow(n)
              /\ \A file \in github[n].files :
                    /\ Stored(db', "KnownFile", FileRow(file))
                    /\ \E j \in 1..Len(db'.known_file_changes) :
                          db'.known_file_changes[j]
                              = ChangeRow(n, file)]_vars

\* C22: in every state indexing reaches, also when the same pull request is
\* indexed again, every file-change row was inserted when the rows of its
\* repository, its pull request and its file were stored, and no table
\* holds two rows with one natural key.
C22_IndexIntegrity ==
    /\ orphans = {}
    /\ \A cls \in {"KnownRepo", "KnownFile", "KnownPullRequest",
                    "KnownFileChange"} :
         \A j1, j2 \in 1..Len(Table(db, cls)) :
            unique_hash(cls, Table(db, cls)[j1])
                = unique_hash(cls, Table(db, cls)[j2]) => j1 = j2

\* C23: get_ancestors(X) never returns X, nor an unmerged change, nor a
\* change merged at or after X's reference time (its merge time if merged,
\* else its creation time), nor a change of the changelog path; every change
\* it returns has a file change whose path or previous path is a path of X
\* with status modified, changed, renamed or deleted that is not a
\* high-frequency file; and the list is in ascending order of merge time.
C23_Ancestors ==
    query = "ancestors" =>
        LET X == github[seed]
            reference == IF X.merged THEN X.merged_at ELSE X.created_at
            paths == {file.filename : file \in
                        {file \in X.files :
                            /\ file.status \in {"modified", "changed",
                                                 "renamed", "deleted"}
                            /\ file.filename \notin HIGH_FREQUENCY_FILES}}
            number(j) == links[j][2]
            row(j) == CHOOSE p \in {db.known_pull_requests[i] :
                                       i \in 1..Len(db.known_pull_requests)} :
                         p.pull_request_id = number(j)
            changesOf(j) == {c \in {db.known_file_changes[i] :
                                      i \in 1..Len(db.known_file_changes)} :
                               c.pull_request_id = number(j)}
        IN  /\ \A j \in 1..Len(links) :
                 /\ number(j) # seed
                 /\ row(j).merged = TRUE
                 /\ row(j).merged_at < reference
                 /\ \A c \in changesOf(j) : c.file_path # ChangelogPath
                 /\ \E c \in changesOf(j) :
                       c.file_path \in paths
                           \/ c.previous_file_path \in paths
            /\ \A j1, j2 \in 1..Len(links) :
                 j1 < j2 => row(j1).merged_at <= row(j2).merged_at

\* two ancestors were returned, the one with the higher number first
\* because it was merged earlier, one of them found by its previous path;
\* the seed is stored too and was merged after both
C23_Witness ==
    /\ query = "ancestors" /\ Len(links) = 2
    /\ links[1][2] > links[2][2]
    /\ github[links[1][2]].merged_at < github[links[2][2]].merged_at
    /\ github[seed].merged
    /\ \E j \in 1..2 : \E file \in github[links[j][2]].files :
          file.previous_filename = "a.txt"

\* C24: get_descendants(X) is the dual of get_ancestors: every change it
\* returns has a file change whose path or previous path is a path X added
\* that is not a high-frequency file, is merged, was merged strictly after
\* X's reference time and changes no changelog path; the list is in
\* ascending order of merge time.
C24_Descendants ==
    query = "descendants" =>
        LET X == github[seed]
            reference == IF X.merged THEN X.merged_at ELSE X.created_at
            added == {file.filename : file \in
                        {file \in X.files :
                            /\ file.status = "added"
                            /\ file.filename \notin HIGH_FREQUENCY_FILES}}
            number(j) == links[j][2]
            changesOf(j) == {c \in {db.known_file_changes[i] :
                                      i \in 1..Len(db.known_file_changes)} :
                               c.pull_request_id = number(j)}
        IN  /\ \A j \in 1..Len(links) :
                 /\ github[number(j)].merged
                 /\ github[number(j)].merged_at > reference
                 /\ \A c \in changesOf(j) : c.file_path # ChangelogPath
                 /\ \E c \in changesOf(j) :
                       c.file_path \in added
                           \/ c.previous_file_path \in added
            /\ \A j1, j2 \in 1..Len(links) :
                 j1 < j2 => github[number(j1)].merged_at
                               <= github[number(j2)].merged_at

\* C25: LocalRepo.open clones at most once over all the calls, never when
\* the directory of the slug exists, and every call in which no git command
\* failed, cloning or not, leaves the default branch of the working copy
\* following origin/<default_branch>.
C25_OpenIdempotent ==
    [][Len(opened') = Len(opened) + 1 =>
         LET call == opened'[Len(opened')]
         IN  /\ cloned' <= 1
             /\ exists(directories, repo_dir) => cloned' = cloned
             /\ call.result # "GitCommandException" =>
                   /\ repo_dir \in DOMAIN upstream'
                   /\ upstream'[repo_dir] = <<"origin", call.default_branch>>
      ]_vars

\* C26: two RepoId made from (org, repo) names that differ only in the case
\* of letters, by the constructor or by from_url, are equal and have the
\* same slug and the same URL.
C26_CaseInsensitive ==
    \A i, j \in 1..Len(repo_ids) :
        (/\ lower(repo_ids[i].org) = lower(repo_ids[j].org)
         /\ lower(repo_ids[i].repo) = lower(repo_ids[j].repo)) =>
            /\ eq(repo_ids[i].id, repo_ids[j].id)
            /\ slug(repo_ids[i].id) = slug(repo_ids[j].id)
            /\ url(repo_ids[i].id) = url(repo_ids[j].id)

\* C27: for every implicit reference #N of the message (a "#" and digits
\* between the start, the end or characters that are neither word
\* characters nor backticks), the result of qualify_implicit_issues
\* contains org/repo#N; the result has no match of the pattern; and
\* qualifying the result gives the result.
C27_Qualified ==
    qualified # << >> =>
        LET result == qualified[1]
            implicit(s) == {h \in 1..Len(s) :
                              /\ Reference(s, h) > 0
                              /\ h = 1 \/ Delimiter(s[h - 1])}
            explicit(digits) == <<RepoText, "#">> \o digits
            contains(s, t) ==
                \E i \in 1..Len(s) :
                    /\ i + Len(t) - 1 <= Len(s)
                    /\ SubSeq(s, i, i + Len(t) - 1) = t
                    /\ i + Len(t) <= Len(s) => s[i + Len(t)] \notin Digit
        IN  /\ \A h \in implicit(message) :
                 contains(result, explicit(Digits(message, h + 1)))
            /\ \A p \in 1..Len(result) : Match(result, p).hash = 0
            /\ Len(qualified) = 2 => qualified[2] = result

C29_PrepareOrder ==
    [][pc' = "add" =>
         /\ pc = "prepare"
         /\ \E rewritten_url \in BOOLEAN :
               gitlog' = gitlog
                  \o <<Cmd("reset --hard HEAD", 0), Cmd("sync origin", 0),
                       Cmd("remote get-url origin", 0)>>
                  \o (IF rewritten_url
                      THEN <<Cmd("remote set-url origin", 0)>> ELSE << >>)
                  \o <<Cmd("track home", 0), Cmd("sync home", 0),
                       Cmd("push --force origin", 0)>>
      ]_vars

C31_ManualAfterCapture ==
    \A p \in 1..Len(views) :
       (views[p].resolution = "MANUAL"
          /\ views[p].modal \in {"open", "dismissed"})
       => Written(views[p]) # views[p].content

\* the phrase that tells an abort operation that nothing was in progress
OwnPhrase(function) ==
    CASE function = "abort_cherry_pick" -> NoCherryPick
      [] function = "abort_merge" -> NoMerge
      [] function = "abort_patch" -> NoPatch

\* C32: a call of abort_merge, abort_patch or abort_cherry_pick returns
\* normally when its command succeeded or failed with its own phrase in
\* stderr, and raises the failure of the command, stdout and stderr
\* unchanged, in every other case.
C32_BestEffortAbort ==
    [][calls' = calls + 1 /\ pc' = "abort" =>
         LET failed == ~called'.r.ok
             own == OwnPhrase(called'.function) \in called'.stderr
         IN  /\ (~failed \/ own) => exc' = NoExc
             /\ (failed /\ ~own) =>
                   /\ exc'.type = "GitCommandException"
                   /\ exc'.stderr = called'.stderr
                   /\ exc'.conflict = called'.r.conflict
                   /\ exc'.marker = called'.r.marker]_vars

\* abort_merge swallowed a failure with "There is no merge to abort" in
\* stderr, next to the phrase of another operation, after a call of
\* abort_patch
C32_Witness ==
    /\ pc = "abort" /\ calls = 2
    /\ called.function = "abort_merge"
    /\ ~called.r.ok /\ called.stderr = {NoMerge, NoPatch}
    /\ exc = NoExc
    /\ gitlog[1] = Cmd("am", "--abort")

\* C33: a git command that is run on the work repository while the
\* Project is entered is published to the StatusMessage: its command line
\* reaches the buffer or a sent message of the StatusMessage.
C33_CommandsEchoed ==
    [][(in_block /\ gitlog' # gitlog) =>
          status_message' # status_message]_vars

\* C34: at most one external command is alive per working copy: two
\* sessions never have a subprocess running in the same repository
\* directory at the same time.
C34_OneCommandPerWorkingCopy ==
    \A s, t \in Sessions :
       (s # t /\ Running(s) /\ Running(t)) => workers[s].dir # workers[t].dir

\* C35: when two sessions work on different repositories, the patch that
\* the "git am" of a session read is the content downloaded from the patch
\* URL of that session.
C35_OwnPatchApplied ==
    (\A s, t \in Sessions : s # t => workers[s].dir # workers[t].dir) =>
       \A s \in Sessions :
          workers[s].applied # "None" => workers[s].applied = PatchOf(s)

\* C36: in a round no handler completes a future that is already
\* completed: no press of Continue or Cancel finds ctx.future done, so the
\* awaited future never holds the InvalidStateError of such an attempt.
C36_ResultSetOnce ==
    ~(pag_future = "InvalidStateError" /\ completed_by = "on_error")

\* C37: an unsubscribe of a subscriber that is subscribed completes
\* without error, also when the subscriber was subscribed and unsubscribed
\* before.
C37_UnsubscribeCompletes ==
    [][(Subscription \in _subscriptions /\ in_block /\ ~in_block')
          => exit_raised' = "None"]_vars

\* the natural keys of the stored rows and of the pending objects
StoredKeys(D) ==
    UNION {{<<cls, unique_hash(cls, Table(D, cls)[j])>> :
              j \in 1..Len(Table(D, cls))} :
           cls \in {"KnownRepo", "KnownFile", "KnownPullRequest",
                     "KnownFileChange"}}

PendingKeys(S) ==
    {<<S.new[j].cls, unique_hash(S.new[j].cls, S.new[j].row)>> :
        j \in 1..Len(S.new)}

\* C38: whatever as_unique calls, commits and rollbacks happened on the
\* Session, every object that as_unique returns from its cache is stored
\* or pending in the Session, so that the next commit stores it.
C38_GetOrCreateSound ==
    session._unique_cache \subseteq StoredKeys(db) \cup PendingKeys(session)

\* C40: when index_repo has processed a pull request that had a row
\* before, the stored row holds what the remote reports now in every
\* column, the closed and merged times included.
C40_ReindexRefreshes ==
    [][(IndexPull /\ Stored(db, "KnownPullRequest", PullKey(index_i)))
          => \E j \in 1..Len(db'.known_pull_requests) :
                db'.known_pull_requests[j] = PullRow(index_i)]_vars

\* a stored pull request is an upstream merge when a stored file change
\* of it touches the changelog path
IsUpstreamMerge(D, p) ==
    \E c \in 1..Len(D.known_file_changes) :
       /\ D.known_file_changes[c].repo_id = p.repo_id
       /\ D.known_file_changes[c].pull_request_id = p.pull_request_id
       /\ D.known_file_changes[c].file_path = ChangelogPath

\* C39: a search that ignores upstream merges returns no upstream merge,
\* and returns every pull request (merged, when only merged ones are asked
\* for; of the repository, when one is given) that has a change of the
\* path and is no upstream merge, also when no repository is given and
\* another repository has an upstream merge with the same number.
C39_UpstreamMergesRemoved ==
    [][(pc = "search" /\ query'.path # "None"
           /\ query'.ignore_upstream_merges) =>
         LET q == query'
             result == {links'[i] : i \in 1..Len(links')}
             touching ==
                {pull_request(db, db.known_file_changes[c]) : c \in
                    {c \in 1..Len(db.known_file_changes) :
                        /\ db.known_file_changes[c].file_path = q.path
                        /\ q.repo_id # "None" =>
                              db.known_file_changes[c].repo_id = q.repo_id}}
         IN  /\ \A p \in result : ~IsUpstreamMerge(db, p)
             /\ \A p \in touching :
                   ((q.merged_only => p.merged) /\ ~IsUpstreamMerge(db, p))
                      => p \in result]_vars

====
